---- MODULE Spec2Model ----
(***************************************************************************)
(* Clixon XPath 1.0 parse-tree utilities (lib/src clixon_xpath.c):         *)
(* tree equality with capture (xpath_tree_eq), unparsing                   *)
(* (xpath_tree2cbuf), parsing (xpath_parse) and prefix canonicalization    *)
(* (xpath2canonical / traverse_canonical).                                 *)
(*                                                                         *)
(* Representation.                                                         *)
(*  - A char* is a string; the NULL pointer is the string NULL.            *)
(*  - An xpath_tree node is a record of the struct's fields; a child       *)
(*    pointer is <<>> (NULL) or <<t>> (the owned subtree t).               *)
(*  - A pointer to a node of a tree is [root, path]: the tree it lives in  *)
(*    and the c0/c1 selectors (0/1) leading to it, so that two equal       *)
(*    looking subtrees at different places are different pointers.         *)
(*  - XPath text is the sequence of lexical tokens of the text.            *)
(*  - A pointer to text, to a namespace context or to a module is <<>>   *)
(*    (NULL) or <<v>>.                                                     *)
(*  - failat says which allocation of the call fails: the failat-th call   *)
(*    of realloc/cbuf_new/strdup/... returns NULL, none when failat = 0.   *)
(***************************************************************************)
EXTENDS Integers, Sequences, FiniteSets, TLC

VARIABLES
    pc,        \* position of the run: "call" before the first call, "done" after
    xt1,       \* xpath_tree_eq: the pattern tree
    xt2,       \* xpath_tree_eq: the candidate tree
    vec0,      \* xpath_tree_eq: capture vector handed in
    failat,    \* the allocation of the call that fails (0: none)
    vec,       \* xpath_tree_eq: capture vector after the call
    len,       \* xpath_tree_eq: *len after the call
    retval,    \* return value of the call
    xpath0,    \* the XPath text handed in
    nsc0,      \* xpath2canonical: input namespace context
    yspec,     \* xpath2canonical: the modules of the yang spec
    xpt,       \* the caller's xpath_tree *xpt, written by xpath_parse
    xpath1,    \* the caller's char *xpath1: the text written out
    xpt1,      \* the tree parsed from xpath1
    nsc1p,     \* xpath2canonical: the caller's cvec *nsc1
    cbreason,  \* xpath2canonical: the caller's cbuf *reason
    alloced,   \* heap: the objects allocated by the call
    freed,     \* heap: the objects freed by the call, in order
    dbg,       \* clicon_debug_get()
    xpathp,    \* xpath_parse: the char *xpath handed in (<<>>: NULL)
    xnode,     \* evaluation: the XML node the expression is evaluated at
    xmlflags,  \* evaluation: the flags each XML node carries
    flags,     \* xpath_vec_flag: the requested flags
    delivered, \* evaluation: what each called function delivered
    fout,      \* xpath_tree_print: what has been written to the stream f
    params,    \* restconf: the parameters on the handle (restconf_param_set)
    req,       \* restconf: the request the last callback handled, <<>> if none
    seen,      \* restconf: <<the parameters its api function found>>
    nreq,      \* restconf: the number of requests handled so far
    uids,      \* privileges: the process's real, effective and saved user id
    have_getresuid, \* privileges: whether the build defines HAVE_GETRESUID
    privlog,   \* privileges: the calls made so far, each with the ids around it
    eh,        \* restconf: _EVHTP_HANDLE, per field whether it holds a pointer
    released,  \* restconf: how often each evhtp resource has been freed
    sigpc,     \* restconf: the positions of the running signal handlers, innermost last
    sig_i,     \* restconf: restconf_sig_term's static counter i
    nsig,      \* restconf: the number of signals delivered so far
    cdat,      \* cli: the recorded log sockets, by stream (clicon_data: log_socket_<stream>)
    regfd,     \* cli: the sockets registered with cligen_regfd
    subs,      \* cli: the subscriptions' sockets; subs[s] is the stream of socket s
    notlog,    \* cli: the calls of cli_notification_register so far
    retval2,   \* xpath2canonical called on its own output: the return value,
    xpath2,    \*   the xpath handed out
    nsc2p      \*   and the namespace context handed out

eqvars == <<xt1, xt2, vec0, vec, len>>
textvars == <<xpath0, xpt, xpath1, xpt1>>
canonvars == <<nsc0, yspec, nsc1p, cbreason>>
heapvars == <<alloced, freed>>
apivars == <<dbg, xpathp, xnode, xmlflags, flags, delivered, fout>>
restvars == <<params, req, seen, nreq>>
privvars == <<uids, have_getresuid, privlog>>
sigvars == <<eh, released, sigpc, sig_i, nsig>>
clivars == <<cdat, regfd, subs, notlog>>
idemvars == <<retval2, xpath2, nsc2p>>
appvars == <<restvars, privvars, sigvars, clivars, idemvars>>
vars == <<pc, failat, retval, eqvars, textvars, canonvars, heapvars, apivars, appvars>>

NULL == "NULL"

\* The state of the applications while the XPath functions are exercised,
\* and that of the XPath functions while an application is.
AppIdle ==
    /\ params = <<>> /\ req = <<>> /\ seen = <<>> /\ nreq = 0
    /\ uids = <<>> /\ have_getresuid = TRUE /\ privlog = <<>>
    /\ eh = <<>> /\ released = <<>> /\ sigpc = <<>> /\ sig_i = 0 /\ nsig = 0
    /\ cdat = <<>> /\ regfd = {} /\ subs = <<>> /\ notlog = <<>>
    /\ retval2 = 0 /\ xpath2 = <<>> /\ nsc2p = <<>>

XpathIdle ==
    /\ failat = 0 /\ retval = 0
    /\ xt1 = <<>> /\ xt2 = <<>> /\ vec0 = <<>> /\ vec = <<>> /\ len = 0
    /\ xpath0 = <<>> /\ xpt = <<>> /\ xpath1 = <<>> /\ xpt1 = <<>>
    /\ nsc0 = <<>> /\ yspec = <<>> /\ nsc1p = <<>> /\ cbreason = <<>>
    /\ alloced = {} /\ freed = <<>>
    /\ dbg = 0 /\ xpathp = <<>> /\ xnode = 0 /\ xmlflags = <<>> /\ flags = {}
    /\ delivered = <<>> /\ fout = <<>>

(***************************************************************************)
(* Bounds of the model.                                                    *)
(***************************************************************************)
MaxNodes == 5   \* nodes of a tree compared with itself
MaxVec0 == 1    \* entries already in the capture vector when the call starts
MaxFailAt == 3  \* the latest allocation of a call that is made to fail
MaxCanonFailAt == 4  \* the same for a call of xpath2canonical

(***************************************************************************)
(* Parse-tree model                                                        *)
(***************************************************************************)
\* xpath_tree_map: the name of each node type (xpath_tree_int2str).
xpath_tree_map ==
    [ XP_EXP |-> "expr", XP_AND |-> "andexpr", XP_RELEX |-> "relexpr",
      XP_ADD |-> "addexpr", XP_UNION |-> "unionexpr", XP_PATHEXPR |-> "pathexpr",
      XP_FILTEREXPR |-> "filterexpr", XP_LOCPATH |-> "locationpath",
      XP_ABSPATH |-> "abslocpath", XP_RELLOCPATH |-> "rellocpath",
      XP_STEP |-> "step", XP_NODE |-> "nodetest", XP_NODE_FN |-> "nodetest fn",
      XP_PRED |-> "predicates", XP_PRI0 |-> "primaryexpr",
      XP_PRIME_NR |-> "primaryexpr nr", XP_PRIME_STR |-> "primaryexpr str",
      XP_PRIME_FN |-> "primaryexpr fn" ]

\* axis_type_map: the name of each axis (axis_type_int2str).
axis_type_map ==
    [ A_NAN |-> "NaN", A_ANCESTOR |-> "ancestor",
      A_ANCESTOR_OR_SELF |-> "ancestor-or-self", A_ATTRIBUTE |-> "attribute",
      A_CHILD |-> "child", A_DESCENDANT |-> "descendant",
      A_DESCENDANT_OR_SELF |-> "descendant-or-self", A_FOLLOWING |-> "following",
      A_FOLLOWING_SIBLING |-> "following-sibling", A_NAMESPACE |-> "namespace",
      A_PARENT |-> "parent", A_PRECEDING |-> "preceding",
      A_PRECEDING_SIBLING |-> "preceding-sibling", A_SELF |-> "self",
      A_ROOT |-> "root" ]

\* The fields of struct xpath_tree, as the functions of the file use them.
xpath_tree(type, i0, dbl, strnr, s0, s1, match, c0, c1) ==
    [ xs_type |-> type, xs_int |-> i0, xs_double |-> dbl, xs_strnr |-> strnr,
      xs_s0 |-> s0, xs_s1 |-> s1, xs_match |-> match, xs_c0 |-> c0, xs_c1 |-> c1 ]

(***************************************************************************)
(* Positions in a tree                                                     *)
(***************************************************************************)
\* xpath_tree_traverse: follow the selectors 0 (c0) and 1 (c1) from xt.
\* <<>> when a selector leads through a NULL child.
RECURSIVE xpath_tree_traverse(_, _)
xpath_tree_traverse(xt, path) ==
    IF path = <<>> THEN <<xt>>
    ELSE LET c == IF Head(path) = 0 THEN xt.xs_c0 ELSE xt.xs_c1
         IN  IF c = <<>> THEN <<>> ELSE xpath_tree_traverse(c[1], Tail(path))

(***************************************************************************)
(* xpath_tree_eq                                                           *)
(***************************************************************************)
\* The n-th allocation of the call: FALSE when it returns NULL.
AllocOk(st) == st.nalloc + 1 # st.failat

\* Slip: the entry is stored but *len is not advanced.
xpath_tree_append_nolen(xt, st) ==
    IF ~AllocOk(st)
    THEN [st EXCEPT !.retval = -1, !.vec = <<>>, !.nalloc = @ + 1]
    ELSE [st EXCEPT !.retval = 0, !.vec = Append(@, xt), !.nalloc = @ + 1]

\* Slip: the entry is put in front of the vector instead of at its end.
xpath_tree_append_front(xt, st) ==
    IF ~AllocOk(st)
    THEN [st EXCEPT !.retval = -1, !.vec = <<>>, !.nalloc = @ + 1]
    ELSE [st EXCEPT !.retval = 0, !.vec = <<xt>> \o @, !.len = @ + 1,
                    !.nalloc = @ + 1]

\* realloc of the vector to len+1 entries and store of xt at its end.
\* A failed realloc has already overwritten *vec with NULL; *len is kept.
xpath_tree_append(xt, st) ==
    IF ~AllocOk(st)
    THEN [st EXCEPT !.retval = -1, !.vec = <<>>, !.nalloc = @ + 1]
    ELSE [st EXCEPT !.retval = 0, !.vec = Append(@, xt), !.len = @ + 1,
                    !.nalloc = @ + 1]

\* Slip: the literal special case is left out.
TypeMismatch_strict(t1, t2) == t1.xs_type # t2.xs_type

\* Slip: the match flag is looked at first, a flagged node skips the test.
TypeMismatch_unflagged(t1, t2) ==
    /\ t1.xs_match = 0
    /\ t1.xs_type # t2.xs_type
    /\ ~ ( /\ t1.xs_type \in {"XP_PRIME_NR", "XP_PRIME_STR"}
           /\ t2.xs_type \in {"XP_PRIME_NR", "XP_PRIME_STR"} )

\* The node-type test at the head of xpath_tree_eq: TRUE when it goes to neq.
TypeMismatch(t1, t2) ==
    /\ t1.xs_type # t2.xs_type
    /\ ~ ( /\ t1.xs_type \in {"XP_PRIME_NR", "XP_PRIME_STR"}
           /\ t2.xs_type \in {"XP_PRIME_NR", "XP_PRIME_STR"} )

\* Slip: the second operand string is not compared.
OperandMismatch_nos1(t1, t2) ==
    \/ t1.xs_int # t2.xs_int
    \/ t1.xs_double # t2.xs_double
    \/ t1.xs_s0 # t2.xs_s0

\* The operand tests of an unflagged node: TRUE when one of them goes to neq.
OperandMismatch(t1, t2) ==
    \/ t1.xs_int # t2.xs_int
    \/ t1.xs_double # t2.xs_double
    \/ t1.xs_s0 # t2.xs_s0    \* clicon_strcmp: NULL equals NULL only
    \/ t1.xs_s1 # t2.xs_s1

\* Slip: children that look alike are taken as compared.
BothNull_same(c1, c2) == c1 = c2

\* xc1 == NULL && xc2 == NULL
BothNull(c1, c2) == c1 = <<>> /\ c2 = <<>>

\* xc1 == NULL || xc2 == NULL, tested after BothNull failed
OneNull(c1, c2) == c1 = <<>> \/ c2 = <<>>

\* p2 is the pointer xt2 (a place in the candidate), st the in/out arguments
\* vec and len together with the allocator's state.
RECURSIVE xpath_tree_eq(_, _, _, _)
xpath_tree_eq(t1, t2, p2, st) ==
    LET neq(s)  == [s EXCEPT !.retval = 0]
        eq(s)   == [s EXCEPT !.retval = 1]
        \* one child slot: both NULL passes, one NULL is neq, else recursion
        slot(c1, c2, sel, s) ==
            IF BothNull(c1, c2) THEN eq(s)
            ELSE IF OneNull(c1, c2) THEN neq(s)
            ELSE xpath_tree_eq(c1[1], c2[1],
                               [p2 EXCEPT !.path = Append(@, sel)], s)
    IN
    IF TypeMismatch(t1, t2) THEN neq(st)
    ELSE IF t1.xs_match # 0
    THEN LET a == xpath_tree_append(p2, st)
         IN  IF a.retval < 0 THEN a ELSE eq(a)
    ELSE IF OperandMismatch(t1, t2) THEN neq(st)
    ELSE LET r0 == slot(t1.xs_c0, t2.xs_c0, 0, st)
         IN  IF r0.retval < 1 THEN r0
             ELSE slot(t1.xs_c1, t2.xs_c1, 1, r0)

(***************************************************************************)
(* xpath_tree2cbuf: unparsing                                              *)
(*                                                                         *)
(* The buffer is the sequence of lexemes of the text written so far:       *)
(* cprintf(xcb, "%s:", s0) adds the lexemes s0 and ":", the two "/" of a   *)
(* descendant-or-self path are the one lexeme "//", and the blanks around  *)
(* and/or and the additive operators separate lexemes without being one.   *)
(***************************************************************************)
\* Operator spellings (xpopmap), by operator code.
xpopmap ==
    [ XO_AND |-> "and", XO_OR |-> "or", XO_DIV |-> "div", XO_MOD |-> "mod",
      XO_ADD |-> "+", XO_MULT |-> "*", XO_SUB |-> "-", XO_EQ |-> "=",
      XO_NE |-> "!=", XO_GE |-> ">=", XO_LE |-> "<=", XO_LT |-> "<",
      XO_GT |-> ">", XO_UNION |-> "|" ]

\* clicon_int2str(xpopmap, i): the spelling, NULL for a code not in the map.
xpop_int2str(i) == IF i \in DOMAIN xpopmap THEN xpopmap[i] ELSE NULL

\* What "%s" writes for a string argument; glibc writes (null) for NULL.
PrintS(str) == IF str = NULL THEN <<"(null)">> ELSE <<str>>

\* "/" or "//" in front of a path or between two steps.
Slashes(i) == IF i = "A_DESCENDANT_OR_SELF" THEN <<"//">> ELSE <<"/">>

\* Slip: every axis other than child is written by name, as axis::.
Tree2cbufBefore_axes(xs) ==
    CASE xs.xs_type = "XP_ABSPATH" -> Slashes(xs.xs_int)
      [] xs.xs_type = "XP_STEP" ->
            ( CASE xs.xs_int = "A_SELF" -> <<".">>
                [] xs.xs_int = "A_PARENT" -> <<"..">>
                [] xs.xs_int = "A_CHILD" -> <<>>
                [] OTHER -> <<axis_type_map[xs.xs_int], "::">> )
      [] xs.xs_type = "XP_NODE" ->
            (IF xs.xs_s0 # NULL THEN <<xs.xs_s0, ":">> ELSE <<>>) \o PrintS(xs.xs_s1)
      [] xs.xs_type = "XP_PRIME_NR" ->
            <<IF xs.xs_strnr # NULL THEN xs.xs_strnr ELSE "0">>
      [] xs.xs_type = "XP_PRIME_STR" ->
            <<"'">> \o (IF xs.xs_s0 # NULL THEN <<xs.xs_s0>> ELSE <<>>) \o <<"'">>
      [] xs.xs_type = "XP_PRIME_FN" ->
            IF xs.xs_s0 # NULL THEN <<xs.xs_s0, "(">> ELSE <<>>
      [] OTHER -> <<>>

\* 1. Before first child
Tree2cbufBefore(xs) ==
    CASE xs.xs_type = "XP_ABSPATH" -> Slashes(xs.xs_int)
      [] xs.xs_type = "XP_STEP" ->
            ( CASE xs.xs_int = "A_SELF" -> <<".">>
                [] xs.xs_int = "A_PARENT" -> <<"..">>
                [] OTHER -> <<>> )
      [] xs.xs_type = "XP_NODE" ->
            (IF xs.xs_s0 # NULL THEN <<xs.xs_s0, ":">> ELSE <<>>) \o PrintS(xs.xs_s1)
      [] xs.xs_type = "XP_PRIME_NR" ->
            <<IF xs.xs_strnr # NULL THEN xs.xs_strnr ELSE "0">>
      [] xs.xs_type = "XP_PRIME_STR" ->
            <<"'">> \o (IF xs.xs_s0 # NULL THEN <<xs.xs_s0>> ELSE <<>>) \o <<"'">>
      [] xs.xs_type = "XP_PRIME_FN" ->
            IF xs.xs_s0 # NULL THEN <<xs.xs_s0, "(">> ELSE <<>>
      [] OTHER -> <<>>

\* 3. Between first and second child
Tree2cbufBetween(xs) ==
    CASE xs.xs_type \in {"XP_AND", "XP_ADD", "XP_RELEX", "XP_UNION"} ->
            IF xs.xs_c1 # <<>> THEN PrintS(xpop_int2str(xs.xs_int)) ELSE <<>>
      [] xs.xs_type = "XP_PATHEXPR" ->
            IF xs.xs_s0 # NULL THEN <<xs.xs_s0>> ELSE <<>>
      [] xs.xs_type = "XP_RELLOCPATH" ->
            IF xs.xs_c1 # <<>> THEN Slashes(xs.xs_int) ELSE <<>>
      [] xs.xs_type = "XP_PRED" ->
            IF xs.xs_c1 # <<>> THEN <<"[">> ELSE <<>>
      [] xs.xs_type = "XP_EXP" ->
            IF xs.xs_c0 # <<>> /\ xs.xs_c1 # <<>> THEN <<",">> ELSE <<>>
      [] OTHER -> <<>>

\* 5. After second child
Tree2cbufAfter(xs) ==
    CASE xs.xs_type = "XP_PRED" ->
            IF xs.xs_c1 # <<>> THEN <<"]">> ELSE <<>>
      [] xs.xs_type = "XP_PRIME_FN" ->
            IF xs.xs_s0 # NULL THEN <<")">> ELSE <<>>
      [] OTHER -> <<>>

\* The buffer after xpath_tree2cbuf(xs, xcb); the function returns 0 (cprintf's
\* result is not looked at, so no step of it fails).
RECURSIVE xpath_tree2cbuf(_, _)
xpath_tree2cbuf(xs, xcb) ==
    LET b1 == xcb \o Tree2cbufBefore(xs)
        b2 == IF xs.xs_c0 # <<>> THEN xpath_tree2cbuf(xs.xs_c0[1], b1) ELSE b1
        b3 == b2 \o Tree2cbufBetween(xs)
        b4 == IF xs.xs_c1 # <<>> THEN xpath_tree2cbuf(xs.xs_c1[1], b3) ELSE b3
    IN  b4 \o Tree2cbufAfter(xs)

(***************************************************************************)
(* xpath_parse: the XPath 1.0 grammar                                      *)
(*                                                                         *)
(* The scanner and the grammar are generated code; the parser below is     *)
(* their grammar over lexemes: one xp_new per production, operands and     *)
(* children as the production gives them.                                  *)
(***************************************************************************)
\* Lexeme classes of the scanner.
NameLexemes == {"x", "y", "a", "b", "c", "p", "v"}
NumberLexemes == {"0", "1", "2", "3"}
NodeTypeLexemes == {"text", "node"}
FunctionLexemes == {"count", "not"}

\* AXISNAME: the axis name with its "::".
AxisLexemes ==
    [ ancestor |-> "A_ANCESTOR", attribute |-> "A_ATTRIBUTE", child |-> "A_CHILD",
      descendant |-> "A_DESCENDANT", following |-> "A_FOLLOWING",
      parent |-> "A_PARENT", preceding |-> "A_PRECEDING", self |-> "A_SELF" ]

\* Operators of the four binary levels, outermost first, and their codes.
LevelType == <<"XP_AND", "XP_RELEX", "XP_ADD", "XP_UNION">>

\* The operator code of lexeme tok at level k, NULL when tok is none of them.
OpCode(k, tok) ==
    LET ops == << [and |-> "XO_AND", or |-> "XO_OR"],
                  [eq |-> "XO_EQ", ne |-> "XO_NE", lt |-> "XO_LT", gt |-> "XO_GT"],
                  [add |-> "XO_ADD", sub |-> "XO_SUB"],
                  [union |-> "XO_UNION"] >>[k]
        hit == { f \in DOMAIN ops : xpopmap[ops[f]] = tok }
    IN  IF hit = {} THEN NULL ELSE ops[CHOOSE f \in hit : TRUE]

\* The value sscanf reads from a number's lexical form.
NumVal(numstr) ==
    CASE numstr = "0" -> 0 [] numstr = "1" -> 1 [] numstr = "2" -> 2 [] numstr = "3" -> 3

\* xp_new: a node with the match flag clear.
xp_new(type, i0, numstr, s0, s1, c0, c1) ==
    xpath_tree(type, i0, IF numstr = NULL THEN 0 ELSE NumVal(numstr), numstr,
               s0, s1, 0, c0, c1)

\* Result of parsing a phrase: ok with its tree and the lexemes left, or not.
PFail == [ok |-> FALSE, t |-> <<>>, rest |-> <<>>]
POk(t, rest) == [ok |-> TRUE, t |-> <<t>>, rest |-> rest]

\* The next lexeme, "EOF" at the end of the text.
Tok(toks) == IF toks = <<>> THEN "EOF" ELSE Head(toks)
Tok2(toks) == IF Len(toks) < 2 THEN "EOF" ELSE toks[2]
Drop(toks, n) == SubSeq(toks, n + 1, Len(toks))

\* The lexemes a step can start with.
StartsStep(tok) ==
    tok \in NameLexemes \cup NodeTypeLexemes \cup DOMAIN AxisLexemes
            \cup {"*", "@", ".", ".."}

\* The lexemes a primary expression can start with.
StartsPrimary(toks) ==
    \/ Tok(toks) \in NumberLexemes \cup {"(", "'"}
    \/ Tok(toks) \in FunctionLexemes /\ Tok2(toks) = "("

\* nodetest : '*' | NAME | NAME ':' NAME | NODETYPE '(' ')'
parse_nodetest(toks) ==
    CASE Tok(toks) = "*" ->
            POk(xp_new("XP_NODE", "A_NAN", NULL, NULL, "*", <<>>, <<>>), Drop(toks, 1))
      [] Tok(toks) \in NodeTypeLexemes /\ Tok2(toks) = "(" ->
            IF Len(toks) >= 3 /\ toks[3] = ")"
            THEN POk(xp_new("XP_NODE_FN", "A_NAN", NULL, Tok(toks), NULL, <<>>, <<>>),
                     Drop(toks, 3))
            ELSE PFail
      [] Tok(toks) \in NameLexemes /\ Tok2(toks) = ":" ->
            IF Len(toks) >= 3 /\ toks[3] \in NameLexemes
            THEN POk(xp_new("XP_NODE", "A_NAN", NULL, Tok(toks), toks[3], <<>>, <<>>),
                     Drop(toks, 3))
            ELSE PFail
      [] Tok(toks) \in NameLexemes ->
            POk(xp_new("XP_NODE", "A_NAN", NULL, NULL, Tok(toks), <<>>, <<>>),
                Drop(toks, 1))
      [] OTHER -> PFail

\* axisspec : AXISNAME | '@'   (and none: the child axis).  The axis and the
\* number of lexemes it takes.
parse_axisspec(toks) ==
    CASE Tok(toks) = "@" -> <<"A_ATTRIBUTE", 1>>
      [] Tok(toks) \in DOMAIN AxisLexemes /\ Tok2(toks) = "::" ->
            <<AxisLexemes[Tok(toks)], 2>>
      [] OTHER -> <<"A_CHILD", 0>>

\* The productions of the grammar, one arm per symbol: the phrase of symbol
\* sym at the head of toks; a holds what is already reduced to the left of
\* it (and the level k for the binary levels).
RECURSIVE yacc(_, _, _)
yacc(sym, a, toks) ==
    CASE sym = "expr" ->
            \* expr : andexpr
            LET r == yacc("level", <<1>>, toks)
            IN  IF ~r.ok THEN PFail
                ELSE POk(xp_new("XP_EXP", "A_NAN", NULL, NULL, NULL, r.t, <<>>), r.rest)
      [] sym = "level" ->
            \* andexpr   : andexpr LOGOP relexpr | relexpr
            \* relexpr   : relexpr RELOP addexpr | addexpr
            \* addexpr   : addexpr ADDOP unionexpr | unionexpr
            \* unionexpr : unionexpr '|' pathexpr | pathexpr
            LET k == a[1]
                r == IF k = Len(LevelType) THEN yacc("pathexpr", <<>>, toks)
                     ELSE yacc("level", <<k + 1>>, toks)
            IN  IF ~r.ok THEN PFail
                ELSE yacc("level_more",
                          <<k, xp_new(LevelType[k], "A_NAN", NULL, NULL, NULL, r.t, <<>>)>>,
                          r.rest)
      [] sym = "level_more" ->
            LET k == a[1]
                left == a[2]
                op == OpCode(k, Tok(toks))
                r == IF k = Len(LevelType) THEN yacc("pathexpr", <<>>, Drop(toks, 1))
                     ELSE yacc("level", <<k + 1>>, Drop(toks, 1))
            IN  IF op = NULL THEN POk(left, toks)
                ELSE IF ~r.ok THEN PFail
                ELSE yacc("level_more",
                          <<k, xp_new(LevelType[k], op, NULL, NULL, NULL, <<left>>, r.t)>>,
                          r.rest)
      [] sym = "pathexpr" ->
            \* pathexpr : locationpath | filterexpr | filterexpr '/' rellocpath
            \*          | filterexpr '//' rellocpath       filterexpr : primaryexpr
            LET r == IF StartsPrimary(toks) THEN yacc("primaryexpr", <<>>, toks)
                     ELSE yacc("locationpath", <<>>, toks)
                f == xp_new("XP_FILTEREXPR", "A_NAN", NULL, NULL, NULL, r.t, <<>>)
                sep == Tok(r.rest)
                rel == yacc("rellocpath", <<>>, Drop(r.rest, 1))
            IN  IF ~r.ok THEN PFail
                ELSE IF ~StartsPrimary(toks)
                THEN POk(xp_new("XP_PATHEXPR", "A_NAN", NULL, NULL, NULL, r.t, <<>>),
                         r.rest)
                ELSE IF sep \notin {"/", "//"}
                THEN POk(xp_new("XP_PATHEXPR", "A_NAN", NULL, NULL, NULL, <<f>>, <<>>),
                         r.rest)
                ELSE IF ~rel.ok THEN PFail
                ELSE POk(xp_new("XP_PATHEXPR", "A_NAN", NULL, sep, NULL, <<f>>, rel.t),
                         rel.rest)
      [] sym = "primaryexpr" ->
            \* primaryexpr : '(' expr ')' | NUMBER | APOST string APOST | APOST APOST
            \*             | FUNCTIONNAME ')' | FUNCTIONNAME args ')'
            LET e == yacc("expr", <<>>, Drop(toks, IF Tok(toks) = "(" THEN 1 ELSE 2))
                args == IF ~e.ok THEN PFail
                        ELSE yacc("args_more",
                                  <<xp_new("XP_EXP", "A_NAN", NULL, NULL, NULL, e.t, <<>>)>>,
                                  e.rest)
            IN  CASE Tok(toks) = "(" ->
                        IF ~e.ok \/ Tok(e.rest) # ")" THEN PFail
                        ELSE POk(xp_new("XP_PRI0", "A_NAN", NULL, NULL, NULL, e.t, <<>>),
                                 Drop(e.rest, 1))
                  [] Tok(toks) \in NumberLexemes ->
                        POk(xp_new("XP_PRIME_NR", "A_NAN", Tok(toks), NULL, NULL, <<>>, <<>>),
                            Drop(toks, 1))
                  [] Tok(toks) = "'" /\ Tok2(toks) = "'" ->
                        POk(xp_new("XP_PRIME_STR", "A_NAN", NULL, NULL, NULL, <<>>, <<>>),
                            Drop(toks, 2))
                  [] Tok(toks) = "'" ->
                        IF Len(toks) >= 3 /\ toks[3] = "'"
                        THEN POk(xp_new("XP_PRIME_STR", "A_NAN", NULL, toks[2], NULL,
                                        <<>>, <<>>), Drop(toks, 3))
                        ELSE PFail
                  [] Tok(toks) \in FunctionLexemes /\ Tok2(toks) = "(" ->
                        IF Len(toks) >= 3 /\ toks[3] = ")"
                        THEN POk(xp_new("XP_PRIME_FN", "A_NAN", NULL, Tok(toks), NULL,
                                        <<>>, <<>>), Drop(toks, 3))
                        ELSE IF ~args.ok \/ Tok(args.rest) # ")" THEN PFail
                        ELSE POk(xp_new("XP_PRIME_FN", "A_NAN", NULL, Tok(toks), NULL,
                                        args.t, <<>>), Drop(args.rest, 1))
                  [] OTHER -> PFail
      [] sym = "args_more" ->
            \* args : args ',' expr | expr
            LET e == yacc("expr", <<>>, Drop(toks, 1))
            IN  IF Tok(toks) # "," THEN POk(a[1], toks)
                ELSE IF ~e.ok THEN PFail
                ELSE yacc("args_more",
                          <<xp_new("XP_EXP", "A_NAN", NULL, NULL, NULL, a, e.t)>>, e.rest)
      [] sym = "locationpath" ->
            \* locationpath : rellocpath | abslocpath
            \* abslocpath   : '/' | '/' rellocpath | '//' rellocpath
            LET abs == Tok(toks) \in {"/", "//"}
                r == yacc("rellocpath", <<>>, IF abs THEN Drop(toks, 1) ELSE toks)
                loc(c) == xp_new("XP_LOCPATH", "A_NAN", NULL, NULL, NULL, <<c>>, <<>>)
            IN  IF Tok(toks) = "/" /\ ~StartsStep(Tok2(toks))
                THEN POk(loc(xp_new("XP_ABSPATH", "A_ROOT", NULL, NULL, NULL, <<>>, <<>>)),
                         Drop(toks, 1))
                ELSE IF ~r.ok THEN PFail
                ELSE IF abs
                THEN POk(loc(xp_new("XP_ABSPATH",
                                    IF Tok(toks) = "//" THEN "A_DESCENDANT_OR_SELF"
                                    ELSE "A_ROOT",
                                    NULL, NULL, NULL, r.t, <<>>)), r.rest)
                ELSE POk(loc(r.t[1]), r.rest)
      [] sym = "rellocpath" ->
            \* rellocpath : step | rellocpath '/' step | rellocpath '//' step
            LET st == yacc("step", <<>>, toks)
            IN  IF ~st.ok THEN PFail
                ELSE yacc("rellocpath_more",
                          <<xp_new("XP_RELLOCPATH", "A_NAN", NULL, NULL, NULL, st.t, <<>>)>>,
                          st.rest)
      [] sym = "rellocpath_more" ->
            LET st == yacc("step", <<>>, Drop(toks, 1))
            IN  IF Tok(toks) \notin {"/", "//"} THEN POk(a[1], toks)
                ELSE IF ~st.ok THEN PFail
                ELSE yacc("rellocpath_more",
                          <<xp_new("XP_RELLOCPATH",
                                   IF Tok(toks) = "//" THEN "A_DESCENDANT_OR_SELF"
                                   ELSE "A_NAN",
                                   NULL, NULL, NULL, a, st.t)>>,
                          st.rest)
      [] sym = "step" ->
            \* step : nodetest predicates | axisspec nodetest predicates
            \*      | '.' predicates | '..' predicates
            LET dots == Tok(toks) \in {".", ".."}
                axis == parse_axisspec(toks)
                nt == IF dots THEN POk(<<>>, Drop(toks, 1))
                      ELSE parse_nodetest(Drop(toks, axis[2]))
                pr == yacc("predicates_more",
                           <<xp_new("XP_PRED", "A_NAN", NULL, NULL, NULL, <<>>, <<>>)>>,
                           nt.rest)
            IN  IF ~nt.ok \/ ~pr.ok THEN PFail
                ELSE IF dots
                THEN POk(xp_new("XP_STEP", IF Tok(toks) = "." THEN "A_SELF" ELSE "A_PARENT",
                                NULL, NULL, NULL, <<>>, pr.t), pr.rest)
                ELSE POk(xp_new("XP_STEP", axis[1], NULL, NULL, NULL, nt.t, pr.t), pr.rest)
      [] sym = "predicates_more" ->
            \* predicates : predicates '[' expr ']' | (empty)
            LET e == yacc("expr", <<>>, Drop(toks, 1))
            IN  IF Tok(toks) # "[" THEN POk(a[1], toks)
                ELSE IF ~e.ok \/ Tok(e.rest) # "]" THEN PFail
                ELSE yacc("predicates_more",
                          <<xp_new("XP_PRED", "A_NAN", NULL, NULL, NULL, a, e.t)>>,
                          Drop(e.rest, 1))

\* start : expr X_EOF.  The tree (xpy_top) as a pointer, <<>> on a syntax error.
clixon_xpath_parseparse(toks) ==
    LET r == yacc("expr", <<>>, toks)
    IN  IF r.ok /\ r.rest = <<>> THEN r.t ELSE <<>>

(***************************************************************************)
(* The heap.  An object of the heap is named by what it is: the node at a  *)
(* path of the parse tree (field "xs"), a string a node owns (its field,   *)
(* the path of the node and the text), or a buffer or vector of the call   *)
(* (its C name, path <<>>, no text).                                       *)
(***************************************************************************)
Cell(field, path, val) == [field |-> field, path |-> path, val |-> val]

\* A buffer, vector, context or other object of the call, by its C name: xpy
\* is the state of the scanner and the parser, set up by xpath_scan_init and
\* xpath_parse_init and released by xpath_parse_exit and xpath_scan_exit.
Obj(name) == Cell(name, <<>>, "")

\* What building the tree xs at path allocated: each node and each string a
\* node was given (xp_new keeps the strings the lexer duplicated).
RECURSIVE xp_new_cells(_, _)
xp_new_cells(xs, path) ==
    {Cell("xs", path, "")}
    \cup { Cell(f, path, xs[f]) : f \in { g \in {"xs_strnr", "xs_s0", "xs_s1"} : xs[g] # NULL } }
    \cup (IF xs.xs_c0 # <<>> THEN xp_new_cells(xs.xs_c0[1], Append(path, 0)) ELSE {})
    \cup (IF xs.xs_c1 # <<>> THEN xp_new_cells(xs.xs_c1[1], Append(path, 1)) ELSE {})

\* Variant of xpath_tree_free_strings that forgets xs_s1.
xpath_tree_free_strings_nos1(xs, path) ==
       (IF xs.xs_strnr # NULL THEN <<Cell("xs_strnr", path, xs.xs_strnr)>> ELSE <<>>)
    \o (IF xs.xs_s0 # NULL THEN <<Cell("xs_s0", path, xs.xs_s0)>> ELSE <<>>)

\* The head of xpath_tree_free: the strings of the node xs that are set are
\* freed, xs_strnr, xs_s0, xs_s1 in this order.
xpath_tree_free_strings(xs, path) ==
       (IF xs.xs_strnr # NULL THEN <<Cell("xs_strnr", path, xs.xs_strnr)>> ELSE <<>>)
    \o (IF xs.xs_s0 # NULL THEN <<Cell("xs_s0", path, xs.xs_s0)>> ELSE <<>>)
    \o (IF xs.xs_s1 # NULL THEN <<Cell("xs_s1", path, xs.xs_s1)>> ELSE <<>>)

\* xpath_tree_free(xs), xs hanging at path: the frees it performs, in order.
RECURSIVE xpath_tree_free(_, _)
xpath_tree_free(xs, path) ==
       xpath_tree_free_strings(xs, path)
    \o (IF xs.xs_c0 # <<>> THEN xpath_tree_free(xs.xs_c0[1], Append(path, 0)) ELSE <<>>)
    \o (IF xs.xs_c1 # <<>> THEN xpath_tree_free(xs.xs_c1[1], Append(path, 1)) ELSE <<>>)
    \o <<Cell("xs", path, "")>>

(***************************************************************************)
(* xpath_tree_print                                                        *)
(***************************************************************************)
\* xpath_tree_print0(cb, xs, level): the buffer after the call, which returns
\* 0. The line of a node is the width of its indent and the pieces written
\* after it; "%d" of a code is written as the code, and the codes whose
\* number is 0 are the first enumerators A_NAN and XO_AND.
RECURSIVE xpath_tree_print0(_, _, _)
xpath_tree_print0(cb, xs, level) ==
    LET line ==
            [ indent |-> level * 3,
              text |->
                   <<xpath_tree_map[xs.xs_type], ":">>
                \o (IF xs.xs_s0 # NULL THEN <<"\"", xs.xs_s0, "\" ">> ELSE <<>>)
                \o (IF xs.xs_s1 # NULL THEN <<"\"", xs.xs_s1, "\" ">> ELSE <<>>)
                \o (IF xs.xs_int \notin {"A_NAN", "XO_AND"}
                    THEN IF xs.xs_type = "XP_STEP"
                         THEN <<axis_type_map[xs.xs_int]>>
                         ELSE <<xs.xs_int, " ">>
                    ELSE <<>>)
                \o (IF xs.xs_strnr # NULL THEN <<xs.xs_strnr, " ">> ELSE <<>>) ]
        b1 == Append(cb, line)
        b2 == IF xs.xs_c0 # <<>> THEN xpath_tree_print0(b1, xs.xs_c0[1], level + 1) ELSE b1
    IN  IF xs.xs_c1 # <<>> THEN xpath_tree_print0(b2, xs.xs_c1[1], level + 1) ELSE b2

\* xpath_tree_print(f, xs): the stream after the call, the return value and
\* the heap. No path of the function frees cb.
xpath_tree_print(f, xs, st) ==
    IF ~AllocOk(st)
    THEN [retval |-> -1, f |-> f, alloced |-> {}, freed |-> <<>>]
    ELSE [retval |-> 0, f |-> f \o xpath_tree_print0(<<>>, xs, 0),
          alloced |-> {Obj("cb")}, freed |-> <<>>]

\* What xpath_parse returns: the status, *xptree, and st with n more
\* allocations tried, al allocated and fr freed.
xpath_parse_res(st, r, t, n, al, fr) ==
    [retval |-> r, xptree |-> t, nalloc |-> st.nalloc + n, failat |-> st.failat,
     alloced |-> st.alloced \cup al, freed |-> st.freed \o fr]

\* Variant of xpath_parse_einval that reports success.
xpath_parse_einval_ok(xptree, st) == xpath_parse_res(st, 0, xptree, 0, {}, <<>>)

\* if (xpath == NULL) { clicon_err(OE_XML, EINVAL, "XPath is NULL"); goto
\* done; } with nothing to release at done.
xpath_parse_einval(xptree, st) == xpath_parse_res(st, -1, xptree, 0, {}, <<>>)

\* Variant of xpath_parse_done that leaves xpy.xpy_top alone.
xpath_parse_done_keep(top) == <<>>

\* done: of xpath_parse with xpy.xpy_top still set: if (xpy.xpy_top)
\* xpath_tree_free(xpy.xpy_top).
xpath_parse_done(top) == xpath_tree_free(top, <<>>)

\* xpath_parse after clixon_xpath_parseparse has returned, top being
\* xpy.xpy_top (<<>>: the parser returned an error).  *xptree is written
\* on the way to retval = 0 only.
xpath_parse_parsed(top, xptree, st) ==
    IF top = <<>>
    THEN xpath_parse_res(st, -1, xptree, 1, {Obj("xpy")}, <<Obj("xpy")>>)
    ELSE IF st.debug > 1
    THEN IF st.nalloc + 2 = st.failat
         THEN xpath_parse_res(st, -1, xptree, 2,
                              {Obj("xpy")} \cup xp_new_cells(top[1], <<>>),
                              xpath_parse_done(top[1]))
         ELSE xpath_parse_res(st, 0, top, 2,
                              {Obj("xpy"), Obj("cb")} \cup xp_new_cells(top[1], <<>>),
                              <<Obj("xpy"), Obj("cb")>>)
    ELSE xpath_parse_res(st, 0, top, 1,
                         {Obj("xpy")} \cup xp_new_cells(top[1], <<>>), <<Obj("xpy")>>)

\* xpath_parse(xpath, &xptree): the status and *xptree (left as it was on an
\* error).  st carries the debug level and the heap; the nodes of the tree
\* are the first allocation of the call, the debug buffer the second.  A
\* failed allocation of the parser ends it like a syntax error.
xpath_parse(xpath, xptree, st) ==
    IF xpath = <<>> THEN xpath_parse_einval(xptree, st)
    ELSE IF ~AllocOk(st)
    THEN xpath_parse_res(st, -1, xptree, 1, {Obj("xpy")}, <<Obj("xpy")>>)
    ELSE xpath_parse_parsed(clixon_xpath_parseparse(xpath[1]), xptree, st)

(***************************************************************************)
(* Canonical form: traverse_canonical and xpath2canonical                  *)
(*                                                                         *)
(* A namespace context (cvec) is the sequence of its [prefix, ns] pairs,   *)
(* the default namespace under the prefix NULL.  The yang spec is the      *)
(* sequence of its modules [name, namespace, prefix], prefix NULL for a    *)
(* module without prefix statement.                                        *)
(***************************************************************************)
\* xml_nsctx_get(nsc, prefix): the namespace bound to prefix, NULL if none.
xml_nsctx_get(nsc, prefix) ==
    LET hit == { i \in DOMAIN nsc : nsc[i].prefix = prefix }
    IN  IF hit = {} THEN NULL
        ELSE nsc[CHOOSE i \in hit : \A j \in hit : i <= j].ns

\* xml_nsctx_add(nsc1, prefix, namespace) on the context of cs: the binding
\* of prefix is replaced if there is one, appended otherwise.
xml_nsctx_add(cs, prefix, namespace) ==
    IF ~AllocOk(cs) THEN [cs EXCEPT !.retval = -1, !.nalloc = @ + 1]
    ELSE LET hit == { i \in DOMAIN cs.nsc1 : cs.nsc1[i].prefix = prefix }
             new == IF hit = {}
                    THEN Append(cs.nsc1, [prefix |-> prefix, ns |-> namespace])
                    ELSE [ i \in DOMAIN cs.nsc1 |->
                             IF i \in hit THEN [prefix |-> prefix, ns |-> namespace]
                             ELSE cs.nsc1[i] ]
         IN  [cs EXCEPT !.retval = 0, !.nsc1 = new, !.nalloc = @ + 1]

\* yang_find_module_by_namespace(yspec, ns): pointer to the module, or NULL.
yang_find_module_by_namespace(ys, namespace) ==
    LET hit == { i \in DOMAIN ys : ys[i].namespace = namespace }
    IN  IF hit = {} THEN <<>>
        ELSE <<ys[CHOOSE i \in hit : \A j \in hit : i <= j]>>

\* yang_find_myprefix(ymod): the argument of the module's prefix statement.
yang_find_myprefix(ymod) == ymod[1].prefix

\* yang_argument_get(ymod): the module's name.
yang_argument_get(ymod) == ymod[1].name

\* Nodetest = * needs no prefix
IsWildcard_never(xs) == FALSE

IsWildcard(xs) == xs.xs_s1 # NULL /\ xs.xs_s1 = "*"

\* Slip: only a missing prefix is filled in, a different one is kept.
NeedsRewrite_nullonly(prefix0, prefix1) == prefix0 = NULL

\* The stored prefix is replaced when there is none or it is another one.
NeedsRewrite(prefix0, prefix1) == prefix0 = NULL \/ prefix0 # prefix1

\* Slip: the reason is written but the function leaves through done.
canonical_failed_fatal(cs, text, arg) ==
    IF ~AllocOk(cs) THEN [cs EXCEPT !.retval = -1, !.nalloc = @ + 1]
    ELSE [cs EXCEPT !.retval = -1, !.reason = <<<<text>> \o PrintS(arg)>>,
                    !.nalloc = @ + 1, !.alloced = @ \cup {Obj("cb")}]

\* cb = cbuf_new(); cprintf(cb, text "%s", arg); *reason = cb; goto failed
canonical_failed(cs, text, arg) ==
    IF ~AllocOk(cs) THEN [cs EXCEPT !.retval = -1, !.nalloc = @ + 1]
    ELSE [cs EXCEPT !.retval = 0, !.reason = <<<<text>> \o PrintS(arg)>>,
                    !.nalloc = @ + 1, !.alloced = @ \cup {Obj("cb")}]

\* if (xs->xs_s0) free(xs->xs_s0) of traverse_canonical, xs hanging at path.
canonical_free_s0(xs, path) ==
    IF xs.xs_s0 # NULL THEN <<Cell("xs_s0", path, xs.xs_s0)>> ELSE <<>>

\* The end of case XP_NODE, a being the state after nsc1 has got its pair:
\* if (prefix0==NULL || strcmp(prefix0, prefix1) != 0) the stored prefix is
\* freed and replaced by a copy of prefix1.
canonical_rewrite(a, prefix0, prefix1) ==
    IF a.retval < 0 THEN a
    ELSE IF ~NeedsRewrite(prefix0, prefix1) THEN [a EXCEPT !.retval = 1]
    ELSE IF ~AllocOk(a)
    THEN [a EXCEPT !.retval = -1, !.xs.xs_s0 = NULL, !.nalloc = @ + 1,
                   !.freed = @ \o canonical_free_s0(a.xs, a.path)]
    ELSE [a EXCEPT !.retval = 1, !.xs.xs_s0 = prefix1, !.nalloc = @ + 1,
                   !.freed = @ \o canonical_free_s0(a.xs, a.path),
                   !.alloced = @ \cup {Cell("xs_s0", a.path, prefix1)}]

\* case XP_NODE of traverse_canonical on the node cs.xs: retval 1 to go on
\* with the children, 0 failed, -1 done with an error.
canonical_node(ys, n0, cs) ==
    LET prefix0 == cs.xs.xs_s0
        namespace == xml_nsctx_get(n0, prefix0)
        ymod == yang_find_module_by_namespace(ys, namespace)
        prefix1 == yang_find_myprefix(ymod)
    IN  IF IsWildcard(cs.xs) THEN [cs EXCEPT !.retval = 1]
        ELSE IF namespace = NULL
        THEN canonical_failed(cs, "No namespace found for prefix: ", prefix0)
        ELSE IF ymod = <<>>
        THEN canonical_failed(cs, "No modules found for namespace: ", namespace)
        ELSE IF prefix1 = NULL
        THEN canonical_failed(cs, "No prefix found in module: ", yang_argument_get(ymod))
        ELSE canonical_rewrite(IF xml_nsctx_get(cs.nsc1, prefix1) = NULL
                               THEN xml_nsctx_add(cs, prefix1, namespace)
                               ELSE [cs EXCEPT !.retval = 0],
                               prefix0, prefix1)

\* The switch on xs->xs_type.
canonical_switch(xs, ys, n0, cs) ==
    IF xs.xs_type = "XP_NODE" THEN canonical_node(ys, n0, [cs EXCEPT !.xs = xs])
    ELSE [cs EXCEPT !.retval = 1, !.xs = xs]

\* The tree x with the child in slot sel as the recursive call r left it.
canonical_graft(x, sel, r) ==
    [r EXCEPT !.xs = IF sel = 0 THEN [x EXCEPT !.xs_c0 = <<r.xs>>]
                     ELSE [x EXCEPT !.xs_c1 = <<r.xs>>],
              !.path = SubSeq(@, 1, Len(@) - 1)]

\* traverse_canonical(xs, yspec, nsc0, nsc1, reason) with cs holding nsc1,
\* *reason and the allocations made so far; the result holds the return
\* value and the tree as the call leaves it.
RECURSIVE traverse_canonical(_, _, _, _)
RECURSIVE canonical_child(_, _, _, _)

\* if (xs->xs_c) { ret = traverse_canonical(xs->xs_c, ...) ... } for slot
\* sel, here being the state the code before it has left.
canonical_child(here, sel, ys, n0) ==
    IF here.retval < 1 THEN here
    ELSE IF sel = 0
    THEN IF here.xs.xs_c0 = <<>> THEN here
         ELSE canonical_graft(here.xs, 0,
                              traverse_canonical(here.xs.xs_c0[1], ys, n0,
                                                 [here EXCEPT !.path = Append(@, 0)]))
    ELSE IF here.xs.xs_c1 = <<>> THEN here
         ELSE canonical_graft(here.xs, 1,
                              traverse_canonical(here.xs.xs_c1[1], ys, n0,
                                                 [here EXCEPT !.path = Append(@, 1)]))

traverse_canonical(xs, ys, n0, cs) ==
    canonical_child(canonical_child(canonical_switch(xs, ys, n0, cs), 0, ys, n0),
                    1, ys, n0)

\* done: of xpath2canonical, h being the state with the heap, and xcb, nsc1
\* and tree (xpt) the local pointers (<<>>: NULL): each one set is released, in
\* this order.
canonical_done(h, xcb, nsc1, tree) ==
    h.freed \o xcb \o nsc1
            \o (IF tree # <<>> THEN xpath_tree_free(tree[1], <<>>) ELSE <<>>)

\* The outputs of xpath2canonical, its return value, and the heap after
\* done:.
canonical_result(r, out, h, xcb, nsc1, tree) ==
    [retval |-> r, xpath1 |-> out.xpath1, nsc1p |-> out.nsc1p,
     cbreason |-> out.cbreason, alloced |-> h.alloced,
     freed |-> canonical_done(h, xcb, nsc1, tree)]

\* xpath2canonical from the return of traverse_canonical (t) on: the tree is
\* printed into a new cbuf, the text copied to *xpath1, nsc1 handed over.
canonical_print(t, out) ==
    IF t.retval < 0
    THEN canonical_result(-1, [out EXCEPT !.cbreason = t.reason], t,
                          <<>>, <<Obj("nsc1")>>, <<t.xs>>)
    ELSE IF t.retval = 0
    THEN canonical_result(0, [out EXCEPT !.cbreason = t.reason], t,
                          <<>>, <<Obj("nsc1")>>, <<t.xs>>)
    ELSE IF ~AllocOk(t)
    THEN canonical_result(-1, out, t, <<>>, <<Obj("nsc1")>>, <<t.xs>>)
    ELSE IF ~AllocOk([t EXCEPT !.nalloc = @ + 1])
    THEN canonical_result(-1, [out EXCEPT !.xpath1 = <<>>],
                          [t EXCEPT !.alloced = @ \cup {Obj("xcb")}],
                          <<Obj("xcb")>>, <<Obj("nsc1")>>, <<t.xs>>)
    ELSE canonical_result(1, [out EXCEPT !.xpath1 = <<xpath_tree2cbuf(t.xs, <<>>)>>,
                                         !.nsc1p = <<t.nsc1>>],
                          [t EXCEPT !.alloced = @ \cup {Obj("xcb"), Obj("xpath1")}],
                          <<Obj("xcb")>>, <<>>, <<t.xs>>)

\* xpath2canonical from the return of xpath_parse (p) on: nsc1 is created
\* and the tree traversed.
canonical_traverse(p, n0, ys, out) ==
    IF p.retval < 0 THEN canonical_result(-1, out, p, <<>>, <<>>, p.xptree)
    ELSE IF ~AllocOk(p) THEN canonical_result(-1, out, p, <<>>, <<>>, p.xptree)
    ELSE canonical_print(
             traverse_canonical(p.xptree[1], ys, n0,
                                [retval |-> -1, xs |-> <<>>, nsc1 |-> <<>>,
                                 reason |-> out.cbreason, nalloc |-> p.nalloc + 1,
                                 failat |-> p.failat, path |-> <<>>,
                                 alloced |-> p.alloced \cup {Obj("nsc1")},
                                 freed |-> p.freed]),
             out)

\* xpath2canonical(xpath0, nsc0, yspec, &xpath1, &nsc1, &reason): the return
\* value and the three outputs, out holding them as the caller set them up.
xpath2canonical(xpath, n0, ys, out, fail) ==
    canonical_traverse(xpath_parse(xpath, <<>>, [nalloc |-> 0, failat |-> fail, debug |-> 0,
                                                    alloced |-> {}, freed |-> <<>>]),
                       n0, ys, out)

(***************************************************************************)
(* Evaluation.  The XML tree is the document of the end-to-end scenario    *)
(* under a top node: <top><a xmlns="urn:example:a"><b>1</b><b>2</b>        *)
(* <c>x</c></a></top>.  A node is its number in document order (0: no      *)
(* node).  An evaluation context is a record with the fields of xp_ctx; a  *)
(* number is <<n>>, NaN is <<>>.                                           *)
(***************************************************************************)
XmlTree ==
    << [name |-> "top", parent |-> 0, ns |-> NULL, body |-> "12x"],
       [name |-> "a", parent |-> 1, ns |-> "urn:example:a", body |-> "12x"],
       [name |-> "b", parent |-> 2, ns |-> "urn:example:a", body |-> "1"],
       [name |-> "b", parent |-> 2, ns |-> "urn:example:a", body |-> "2"],
       [name |-> "c", parent |-> 2, ns |-> "urn:example:a", body |-> "x"] >>

xml_name(x) == XmlTree[x].name
xml_parent(x) == XmlTree[x].parent
xml_body(x) == XmlTree[x].body
xml2ns(x) == XmlTree[x].ns

\* The nodes of set S in document order.
xml_sorted(S) == SelectSeq([i \in DOMAIN XmlTree |-> i], LAMBDA x : x \in S)

\* x and the nodes above it.
xml_ancestor_or_self(x) ==
    LET up(y) == IF y = 0 THEN 0 ELSE xml_parent(y)
    IN  {x, up(x), up(up(x)), up(up(up(x)))} \ {0}

\* The nodes reached from x along an axis; the axes the tree has no nodes
\* for (attributes, namespaces) and the sibling axes give none.
xp_axis(axis, x) ==
    CASE axis = "A_CHILD" -> { y \in DOMAIN XmlTree : xml_parent(y) = x }
      [] axis = "A_SELF" -> {x}
      [] axis = "A_PARENT" -> {xml_parent(x)} \ {0}
      [] axis = "A_DESCENDANT_OR_SELF" ->
            { y \in DOMAIN XmlTree : x \in xml_ancestor_or_self(y) }
      [] axis = "A_DESCENDANT" ->
            { y \in DOMAIN XmlTree : x \in xml_ancestor_or_self(y) } \ {x}
      [] axis = "A_ANCESTOR" -> xml_ancestor_or_self(x) \ {x}
      [] OTHER -> {}

\* The contexts of the four result types, on the current and initial node
\* of xc.
xp_ctx(type, nodes, b, n, s, xc) ==
    [xc_type |-> type, xc_nodeset |-> nodes, xc_size |-> Len(nodes),
     xc_bool |-> b, xc_number |-> n, xc_string |-> s,
     xc_node |-> xc.xc_node, xc_initial |-> xc.xc_initial]

ctx_nodeset(xc, nodes) == xp_ctx("XT_NODESET", nodes, 0, <<0>>, NULL, xc)
ctx_bool(xc, b) == xp_ctx("XT_BOOL", <<>>, IF b THEN 1 ELSE 0, <<0>>, NULL, xc)
ctx_number(xc, n) == xp_ctx("XT_NUMBER", <<>>, 0, n, NULL, xc)
ctx_string(xc, s) == xp_ctx("XT_STRING", <<>>, 0, <<0>>, s, xc)

\* What an evaluation returns: the status and the result context *xrp.
EvalErr == [retval |-> -1, xr |-> <<>>]
EvalOk(xc) == [retval |-> 0, xr |-> <<xc>>]

\* The number a string spells, NaN if it spells none.
xp_str2number(s) == IF s \in NumberLexemes THEN <<NumVal(s)>> ELSE <<>>

\* ctx2boolean: a nodeset is true iff it is not empty, a number iff it is
\* neither zero nor NaN, a string iff it is not empty.
ctx2boolean(xc) ==
    CASE xc.xc_type = "XT_NODESET" -> IF xc.xc_size # 0 THEN 1 ELSE 0
      [] xc.xc_type = "XT_BOOL" -> xc.xc_bool
      [] xc.xc_type = "XT_NUMBER" ->
            IF xc.xc_number # <<>> /\ xc.xc_number # <<0>> THEN 1 ELSE 0
      [] xc.xc_type = "XT_STRING" ->
            IF xc.xc_string # NULL /\ xc.xc_string # "" THEN 1 ELSE 0

\* ctx2number: a nodeset gives the number of its first node's string value.
ctx2number(xc) ==
    CASE xc.xc_type = "XT_NODESET" ->
            IF xc.xc_size = 0 THEN <<>> ELSE xp_str2number(xml_body(xc.xc_nodeset[1]))
      [] xc.xc_type = "XT_BOOL" -> <<xc.xc_bool>>
      [] xc.xc_type = "XT_NUMBER" -> xc.xc_number
      [] xc.xc_type = "XT_STRING" -> xp_str2number(xc.xc_string)

\* The strings and the numbers an operand of a comparison stands for: a
\* nodeset stands for each of its nodes.
xp_operand_strings(xc) ==
    IF xc.xc_type = "XT_NODESET"
    THEN { xml_body(xc.xc_nodeset[i]) : i \in 1..xc.xc_size }
    ELSE {xc.xc_string}

xp_operand_numbers(xc) ==
    IF xc.xc_type = "XT_NODESET"
    THEN { xp_str2number(xml_body(xc.xc_nodeset[i])) : i \in 1..xc.xc_size }
    ELSE {ctx2number(xc)}

\* A relation between two numbers; NaN equals nothing and is in no order.
xp_number_rel(op, m, n) ==
    CASE op = "XO_EQ" -> m # <<>> /\ n # <<>> /\ m[1] = n[1]
      [] op = "XO_NE" -> ~(m # <<>> /\ n # <<>> /\ m[1] = n[1])
      [] op = "XO_LT" -> m # <<>> /\ n # <<>> /\ m[1] < n[1]
      [] op = "XO_GT" -> m # <<>> /\ n # <<>> /\ m[1] > n[1]

\* Variant of xp_relop that asks the relation of every node of a nodeset.
xp_relop_all(op, r0, r1) ==
    IF "XT_BOOL" \in {r0.xc_type, r1.xc_type}
    THEN xp_number_rel(op, <<ctx2boolean(r0)>>, <<ctx2boolean(r1)>>)
    ELSE IF "XT_NUMBER" \in {r0.xc_type, r1.xc_type} \/ op \in {"XO_LT", "XO_GT"}
    THEN \A m \in xp_operand_numbers(r0), n \in xp_operand_numbers(r1) :
            xp_number_rel(op, m, n)
    ELSE \A s \in xp_operand_strings(r0), t \in xp_operand_strings(r1) :
            IF op = "XO_EQ" THEN s = t ELSE s # t

\* relexpr: with a boolean operand the booleans are compared, with a number
\* operand or an order the numbers, otherwise the strings; a nodeset
\* satisfies the relation if any of its nodes does.
xp_relop(op, r0, r1) ==
    IF "XT_BOOL" \in {r0.xc_type, r1.xc_type}
    THEN xp_number_rel(op, <<ctx2boolean(r0)>>, <<ctx2boolean(r1)>>)
    ELSE IF "XT_NUMBER" \in {r0.xc_type, r1.xc_type} \/ op \in {"XO_LT", "XO_GT"}
    THEN \E m \in xp_operand_numbers(r0), n \in xp_operand_numbers(r1) :
            xp_number_rel(op, m, n)
    ELSE \E s \in xp_operand_strings(r0), t \in xp_operand_strings(r1) :
            IF op = "XO_EQ" THEN s = t ELSE s # t

\* addexpr: both operands as numbers, NaN if either is.
xp_arith(op, m, n) ==
    IF m = <<>> \/ n = <<>> THEN <<>>
    ELSE IF op = "XO_ADD" THEN <<m[1] + n[1]>> ELSE <<m[1] - n[1]>>

\* The nodes of nodeset s followed by those of t that are not in s.
xp_union(s, t) == s \o SelectSeq(t, LAMBDA x : \A i \in 1..Len(s) : s[i] # x)

\* A binary expression from the results of its operands.
xp_binary(xs, e0, e1, xc) ==
    IF e0.retval < 0 \/ e1.retval < 0 THEN EvalErr
    ELSE CASE xs.xs_type = "XP_AND" ->
                EvalOk(ctx_bool(xc, IF xs.xs_int = "XO_AND"
                                    THEN ctx2boolean(e0.xr[1]) = 1 /\ ctx2boolean(e1.xr[1]) = 1
                                    ELSE ctx2boolean(e0.xr[1]) = 1 \/ ctx2boolean(e1.xr[1]) = 1))
           [] xs.xs_type = "XP_RELEX" ->
                EvalOk(ctx_bool(xc, xp_relop(xs.xs_int, e0.xr[1], e1.xr[1])))
           [] xs.xs_type = "XP_ADD" ->
                EvalOk(ctx_number(xc, xp_arith(xs.xs_int, ctx2number(e0.xr[1]),
                                               ctx2number(e1.xr[1]))))
           [] xs.xs_type = "XP_UNION" ->
                IF e0.xr[1].xc_type # "XT_NODESET" \/ e1.xr[1].xc_type # "XT_NODESET"
                THEN EvalErr
                ELSE EvalOk(ctx_nodeset(xc, xp_union(e0.xr[1].xc_nodeset,
                                                      e1.xr[1].xc_nodeset)))

\* Node test nt (a pointer, <<>> for the steps . and ..) on node x: 1 match,
\* 0 none, -1 a prefix the namespace context does not bind.
nodetest_eval(x, nt, env) ==
    IF nt = <<>> THEN 1
    ELSE IF nt[1].xs_type = "XP_NODE_FN" THEN (IF nt[1].xs_s0 = "node" THEN 1 ELSE 0)
    ELSE IF nt[1].xs_s1 = "*" THEN 1
    ELSE IF env.localonly = 1 THEN (IF xml_name(x) = nt[1].xs_s1 THEN 1 ELSE 0)
    ELSE IF nt[1].xs_s0 # NULL /\ xml_nsctx_get(env.nsc, nt[1].xs_s0) = NULL THEN -1
    ELSE IF xml_name(x) = nt[1].xs_s1
            /\ xml2ns(x) = xml_nsctx_get(env.nsc, nt[1].xs_s0) THEN 1
    ELSE 0

\* A step without its predicates: the nodes along the axis from each node
\* of the context, in document order, that pass the node test.
xp_step_select(xs, xc, env) ==
    LET cand == xml_sorted(UNION { xp_axis(xs.xs_int, xc.xc_nodeset[i]) :
                                     i \in 1..xc.xc_size })
    IN  IF \E i \in 1..Len(cand) : nodetest_eval(cand[i], xs.xs_c0, env) = -1
        THEN EvalErr
        ELSE EvalOk(ctx_nodeset(xc, SelectSeq(cand, LAMBDA x :
                                                nodetest_eval(x, xs.xs_c0, env) = 1)))

\* The context in front of the first step of an absolute path: the root of
\* the tree of the initial node, for // with all that is below it.
xp_root(xc, axis) ==
    LET root == CHOOSE y \in xml_ancestor_or_self(xc.xc_initial) : xml_parent(y) = 0
    IN  ctx_nodeset(xc, IF axis = "A_DESCENDANT_OR_SELF"
                        THEN xml_sorted(xp_axis(axis, root)) ELSE <<root>>)

\* The context between two steps: for // the nodes and all that is below.
xp_between(xc, dbl) ==
    IF dbl
    THEN ctx_nodeset(xc, xml_sorted(UNION { xp_axis("A_DESCENDANT_OR_SELF", xc.xc_nodeset[i]) :
                                              i \in 1..xc.xc_size }))
    ELSE xc

\* The context a predicate is evaluated in for the i-th node of xc.
xp_single(xc, i) ==
    [ctx_nodeset(xc, <<xc.xc_nodeset[i]>>) EXCEPT !.xc_node = xc.xc_nodeset[i]]

\* Variant of xp_pred_filter that takes a number by its boolean value.
xp_pred_filter_bool(xc, e) ==
    IF \E i \in 1..xc.xc_size : e[i].retval < 0 THEN EvalErr
    ELSE LET keep(i) == ctx2boolean(e[i].xr[1]) = 1
             kept == SelectSeq([i \in 1..xc.xc_size |-> i], keep)
         IN  EvalOk(ctx_nodeset(xc, [k \in 1..Len(kept) |-> xc.xc_nodeset[kept[k]]]))

\* The nodes of xc a predicate keeps, e[i] being its result for the i-th: a
\* number keeps the node at that position, anything else keeps by its
\* boolean value.
xp_pred_filter(xc, e) ==
    IF \E i \in 1..xc.xc_size : e[i].retval < 0 THEN EvalErr
    ELSE LET keep(i) == IF e[i].xr[1].xc_type = "XT_NUMBER"
                        THEN e[i].xr[1].xc_number = <<i>>
                        ELSE ctx2boolean(e[i].xr[1]) = 1
             kept == SelectSeq([i \in 1..xc.xc_size |-> i], keep)
         IN  EvalOk(ctx_nodeset(xc, [k \in 1..Len(kept) |-> xc.xc_nodeset[kept[k]]]))

\* A function call from the result of its first argument; a function that
\* is not known is an error.
xp_function(name, e, xc) ==
    IF e.retval < 0 THEN EvalErr
    ELSE CASE name = "count" -> EvalOk(ctx_number(xc, <<e.xr[1].xc_size>>))
           [] name = "not" -> EvalOk(ctx_bool(xc, ctx2boolean(e.xr[1]) = 0))
           [] OTHER -> EvalErr

\* xp_eval(xc, xs, nsc, localonly, &xr), env holding nsc and localonly.
RECURSIVE xp_eval(_, _, _)
xp_eval(xc, xs, env) ==
    CASE xs.xs_type \in {"XP_EXP", "XP_FILTEREXPR", "XP_LOCPATH", "XP_PRI0"} ->
            IF xs.xs_c0 = <<>> THEN EvalOk(xc) ELSE xp_eval(xc, xs.xs_c0[1], env)
      [] xs.xs_type \in {"XP_AND", "XP_RELEX", "XP_ADD", "XP_UNION"} ->
            IF xs.xs_c1 = <<>> THEN xp_eval(xc, xs.xs_c0[1], env)
            ELSE xp_binary(xs, xp_eval(xc, xs.xs_c0[1], env),
                           xp_eval(xc, xs.xs_c1[1], env), xc)
      [] xs.xs_type \in {"XP_PATHEXPR", "XP_RELLOCPATH"} ->
            LET e0 == xp_eval(xc, xs.xs_c0[1], env)
            IN  IF xs.xs_c1 = <<>> \/ e0.retval < 0 THEN e0
                ELSE xp_eval(xp_between(e0.xr[1], xs.xs_int = "A_DESCENDANT_OR_SELF"
                                                  \/ xs.xs_s0 = "//"),
                             xs.xs_c1[1], env)
      [] xs.xs_type = "XP_ABSPATH" ->
            IF xs.xs_c0 = <<>> THEN EvalOk(xp_root(xc, xs.xs_int))
            ELSE xp_eval(xp_root(xc, xs.xs_int), xs.xs_c0[1], env)
      [] xs.xs_type = "XP_STEP" ->
            LET sel == xp_step_select(xs, xc, env)
            IN  IF xs.xs_c1 = <<>> \/ sel.retval < 0 THEN sel
                ELSE xp_eval(sel.xr[1], xs.xs_c1[1], env)
      [] xs.xs_type = "XP_PRED" ->
            LET e0 == IF xs.xs_c0 = <<>> THEN EvalOk(xc) ELSE xp_eval(xc, xs.xs_c0[1], env)
            IN  IF xs.xs_c1 = <<>> \/ e0.retval < 0 THEN e0
                ELSE xp_pred_filter(e0.xr[1],
                                    [i \in 1..e0.xr[1].xc_size |->
                                        xp_eval(xp_single(e0.xr[1], i), xs.xs_c1[1], env)])
      [] xs.xs_type = "XP_PRIME_NR" -> EvalOk(ctx_number(xc, <<xs.xs_double>>))
      [] xs.xs_type = "XP_PRIME_STR" ->
            EvalOk(ctx_string(xc, IF xs.xs_s0 = NULL THEN "" ELSE xs.xs_s0))
      [] xs.xs_type = "XP_PRIME_FN" ->
            IF xs.xs_c0 = <<>> THEN EvalErr
            ELSE xp_function(xs.xs_s0, xp_eval(xc, xs.xs_c0[1], env), xc)
      [] OTHER -> EvalOk(xc)

(***************************************************************************)
(* The evaluation functions.  st holds the count of allocations tried, the *)
(* one that fails, the debug level and the heap of the call.  A vector of  *)
(* nodes is the sequence of its nodes, <<>> being the null vector; a node  *)
(* pointer is the node, 0 being NULL.                                      *)
(***************************************************************************)
\* st after one more allocation, that of object c if it succeeds.
api_alloc(st, c) ==
    IF AllocOk(st) THEN [st EXCEPT !.nalloc = @ + 1, !.alloced = @ \cup {c}]
    ELSE [st EXCEPT !.nalloc = @ + 1]

\* ctx_free(xr): the node vector of the context, if it has one, and the
\* context.
ctx_free(xr) ==
    IF xr = <<>> THEN <<>>
    ELSE (IF xr[1].xc_nodeset # <<>> THEN <<Obj("xr->xc_nodeset")>> ELSE <<>>) \o <<Obj("xr")>>

\* The objects xp_eval allocates for the result context xr it hands back.
xp_eval_cells(xr) ==
    {Obj("xr")} \cup (IF xr.xc_nodeset # <<>> THEN {Obj("xr->xc_nodeset")} ELSE {})

\* What xpath_vec_ctx returns: the status, *xrp and the heap.
xpath_vec_ctx_res(st, r, xr, n, al, fr) ==
    [retval |-> r, xr |-> xr, nalloc |-> st.nalloc + n, failat |-> st.failat,
     alloced |-> st.alloced \cup al, freed |-> st.freed \o fr]

\* xpath_vec_ctx from xp_eval on, p being the state after xpath_parse and
\* cxvec_append, e what xp_eval returns: on an error the function leaves
\* through done: at once, otherwise xc.xc_nodeset is freed first; done:
\* frees the tree.
xpath_vec_ctx_eval(p, e) ==
    IF ~AllocOk(p) \/ e.retval < 0
    THEN xpath_vec_ctx_res(p, -1, <<>>, 1, {}, xpath_tree_free(p.xptree[1], <<>>))
    ELSE xpath_vec_ctx_res(p, 0, e.xr, 1, xp_eval_cells(e.xr[1]),
                           <<Obj("xc.xc_nodeset")>> \o xpath_tree_free(p.xptree[1], <<>>))

\* The start context of xpath_vec_ctx: a nodeset holding xcur.
xpath_vec_ctx_xc(xcur) ==
    ctx_nodeset([xc_node |-> xcur, xc_initial |-> xcur], <<xcur>>)

\* xpath_vec_ctx from cxvec_append on, p being what xpath_parse returned.
xpath_vec_ctx_parsed(p, xcur, nsc, localonly) ==
    IF p.retval < 0 THEN xpath_vec_ctx_res(p, -1, <<>>, 0, {}, <<>>)
    ELSE IF ~AllocOk(p)
    THEN xpath_vec_ctx_res(p, -1, <<>>, 1, {}, xpath_tree_free(p.xptree[1], <<>>))
    ELSE xpath_vec_ctx_eval(api_alloc(p, Obj("xc.xc_nodeset")),
                            xp_eval(xpath_vec_ctx_xc(xcur), p.xptree[1],
                                    [nsc |-> nsc, localonly |-> localonly]))

\* xpath_vec_ctx(xcur, nsc, xpath, localonly, &xr)
xpath_vec_ctx(xcur, nsc, xpath, localonly, st) ==
    xpath_vec_ctx_parsed(xpath_parse(<<xpath>>, <<>>, st), xcur, nsc, localonly)

\* done: of the functions that malloc the text: if (xr) ctx_free(xr); if
\* (xpath) free(xpath).
xpath_done(v, xr) == v.freed \o ctx_free(xr) \o <<Obj("xpath")>>

\* What a function hands back: its return value or *count (retval, cx,
\* count), *vec and *veclen, and the heap.
api_res(r, cx, vec1, veclen, count, al, fr) ==
    [called |-> TRUE, retval |-> r, cx |-> cx, vec |-> vec1, veclen |-> veclen,
     count |-> count, alloced |-> al, freed |-> fr]

\* Variant of xpath_first_cx that tells an error from no match by -1.
xpath_first_cx_status(v) ==
    IF v.retval < 0 THEN -1
    ELSE IF v.xr # <<>> /\ v.xr[1].xc_type = "XT_NODESET" /\ v.xr[1].xc_size # 0
    THEN v.xr[1].xc_nodeset[1]
    ELSE 0

\* if (xr && xr->xc_type == XT_NODESET && xr->xc_size) cx = xr->xc_nodeset[0]
\* after xpath_vec_ctx returned v; cx stays NULL otherwise.
xpath_first_cx(v) ==
    IF v.retval < 0 THEN 0
    ELSE IF v.xr # <<>> /\ v.xr[1].xc_type = "XT_NODESET" /\ v.xr[1].xc_size # 0
    THEN v.xr[1].xc_nodeset[1]
    ELSE 0

\* xpath_first and xpath_first_localonly after the malloc of the text, v
\* being what xpath_vec_ctx returned.
xpath_first_done(v, c) ==
    api_res(c.retval, xpath_first_cx(v), c.vec, c.veclen, c.count, v.alloced,
            xpath_done(v, v.xr))

\* The return of a function whose malloc of the text failed: nothing of
\* the caller's is written.
api_nomem(c, st) ==
    api_res(-1, 0, c.vec, c.veclen, c.count, st.alloced, st.freed)

\* xpath_first(xcur, nsc, xpformat, ...), c holding the caller's variables.
xpath_first(xcur, nsc, xpath, c, st) ==
    IF ~AllocOk(st) THEN api_nomem(c, st)
    ELSE xpath_first_done(xpath_vec_ctx(xcur, nsc, xpath, 0, api_alloc(st, Obj("xpath"))), c)

\* xpath_first_localonly(xcur, xpformat, ...)
xpath_first_localonly(xcur, xpath, c, st) ==
    IF ~AllocOk(st) THEN api_nomem(c, st)
    ELSE xpath_first_done(xpath_vec_ctx(xcur, <<>>, xpath, 1, api_alloc(st, Obj("xpath"))), c)

\* Variant of xpath_vec_hand that leaves the vector with the context.
xpath_vec_hand_keep(xr) == xr

\* xr->xc_nodeset = NULL of xpath_vec, after *vec has got the vector.
xpath_vec_hand(xr) == <<[xr[1] EXCEPT !.xc_nodeset = <<>>]>>

\* Variant of xpath_vec_veclen that leaves *veclen at 0.
xpath_vec_veclen_zero(xr) == 0

\* *veclen = xr->xc_size of xpath_vec.
xpath_vec_veclen(xr) == xr[1].xc_size

\* xpath_vec after *vec = NULL; *veclen = 0, v being what xpath_vec_ctx
\* returned.
xpath_vec_done(v, c) ==
    IF v.retval < 0
    THEN api_res(-1, 0, <<>>, 0, c.count, v.alloced, xpath_done(v, v.xr))
    ELSE IF v.xr # <<>> /\ v.xr[1].xc_type = "XT_NODESET"
    THEN api_res(0, 0, v.xr[1].xc_nodeset, xpath_vec_veclen(v.xr), c.count,
                 v.alloced, xpath_done(v, xpath_vec_hand(v.xr)))
    ELSE api_res(0, 0, <<>>, 0, c.count, v.alloced, xpath_done(v, v.xr))

\* xpath_vec(xcur, nsc, xpformat, &vec, &veclen, ...)
xpath_vec(xcur, nsc, xpath, c, st) ==
    IF ~AllocOk(st) THEN api_nomem(c, st)
    ELSE xpath_vec_done(xpath_vec_ctx(xcur, nsc, xpath, 0, api_alloc(st, Obj("xpath"))), c)

\* xml_flag(x, flags): whether node x carries one of the flags.
xml_flag(x, fl, carried) == carried[x] \cap fl # {}

\* Variant of xpath_vec_flag_test that has no case for flags == 0.
xpath_vec_flag_test_nozero(x, fl, carried) == xml_flag(x, fl, carried)

\* if (flags==0x0 || xml_flag(x, flags)) of xpath_vec_flag.
xpath_vec_flag_test(x, fl, carried) == fl = {} \/ xml_flag(x, fl, carried)

\* The loop of xpath_vec_flag over the nodeset of xr, each node that passes
\* the test appended by cxvec_append, one allocation each; the loop ends at
\* the append that fails.
xpath_vec_flag_loop(v, c, fl, carried) ==
    LET pass == SelectSeq(v.xr[1].xc_nodeset,
                          LAMBDA x : xpath_vec_flag_test(x, fl, carried))
        fails == v.failat - v.nalloc
        bad == fails \in 1..Len(pass)
        got == IF bad THEN SubSeq(pass, 1, fails - 1) ELSE pass
    IN  api_res(IF bad THEN -1 ELSE 0, 0, got, Len(got), c.count,
                v.alloced \cup (IF got # <<>> THEN {Obj("vec")} ELSE {}),
                xpath_done(v, v.xr))

\* xpath_vec_flag after *vec = NULL; *veclen = 0, v being what
\* xpath_vec_ctx returned.
xpath_vec_flag_done(v, c, fl, carried) ==
    IF v.retval < 0
    THEN api_res(-1, 0, <<>>, 0, c.count, v.alloced, xpath_done(v, v.xr))
    ELSE IF v.xr # <<>> /\ v.xr[1].xc_type = "XT_NODESET"
    THEN xpath_vec_flag_loop(v, c, fl, carried)
    ELSE api_res(0, 0, <<>>, 0, c.count, v.alloced, xpath_done(v, v.xr))

\* xpath_vec_flag(xcur, nsc, xpformat, flags, &vec, &veclen, ...)
xpath_vec_flag(xcur, nsc, xpath, fl, carried, c, st) ==
    IF ~AllocOk(st) THEN api_nomem(c, st)
    ELSE xpath_vec_flag_done(xpath_vec_ctx(xcur, nsc, xpath, 0, api_alloc(st, Obj("xpath"))),
                             c, fl, carried)

\* xpath_vec_bool after the malloc of the text: if (xr) retval =
\* ctx2boolean(xr), retval staying -1 on an error.
xpath_vec_bool_done(v, c) ==
    api_res(IF v.retval < 0 \/ v.xr = <<>> THEN -1 ELSE ctx2boolean(v.xr[1]),
            0, c.vec, c.veclen, c.count, v.alloced, xpath_done(v, v.xr))

\* xpath_vec_bool(xcur, nsc, xpformat, ...)
xpath_vec_bool(xcur, nsc, xpath, c, st) ==
    IF ~AllocOk(st) THEN api_nomem(c, st)
    ELSE xpath_vec_bool_done(xpath_vec_ctx(xcur, nsc, xpath, 0, api_alloc(st, Obj("xpath"))), c)

\* Variant of xpath_count_text that hands the text on as it is.
xpath_count_text_plain(xpath) == xpath

\* cprintf(cb, "count(%s)", xpath) of xpath_count.
xpath_count_text(xpath) == <<"count", "(">> \o xpath \o <<")">>

\* (uint32_t)xc->xc_number: the number itself for the numbers count() gives
\* (not negative, not NaN, below 2^32); the conversion of any other number
\* is not defined.
xpath_count_cast(n) == CASE n # <<>> /\ n[1] >= 0 -> n[1]

\* xpath_count after cbuf_new, v being what xpath_vec_ctx returned: the
\* test xc->xc_number != NAN holds for every number; done: cbuf_free(cb),
\* ctx_free(xc).
xpath_count_done(v, c) ==
    IF v.retval < 0
    THEN api_res(-1, 0, c.vec, c.veclen, c.count, v.alloced,
                 v.freed \o <<Obj("cb")>> \o ctx_free(v.xr))
    ELSE api_res(0, 0, c.vec, c.veclen,
                 IF v.xr # <<>> /\ v.xr[1].xc_type = "XT_NUMBER"
                 THEN xpath_count_cast(v.xr[1].xc_number) ELSE 0,
                 v.alloced, v.freed \o <<Obj("cb")>> \o ctx_free(v.xr))

\* xpath_count(xcur, nsc, xpath, &count)
xpath_count(xcur, nsc, xpath, c, st) ==
    IF ~AllocOk(st) THEN api_nomem(c, st)
    ELSE xpath_count_done(xpath_vec_ctx(xcur, nsc, xpath_count_text(xpath), 0,
                                        api_alloc(st, Obj("cb"))), c)

(***************************************************************************)
(* Inputs of xpath_tree_eq                                                 *)
(***************************************************************************)
\* Operand settings <<type, int, double, strnr, s0, s1>> as xp_new leaves
\* them: pairs among them differ in the type only, in exactly one operand,
\* or in a literal's kind.
Node(o, match, c0, c1) ==
    xpath_tree(o[1], o[2], o[3], o[4], o[5], o[6], match, c0, c1)

\* A root with up to two leaf children; flags anywhere when flagged is TRUE.
PairTrees(flagged) ==
    LET RootOperands ==
            { <<"XP_STEP",      "A_CHILD",  0, NULL, NULL, NULL>>,
              <<"XP_STEP",      "A_PARENT", 0, NULL, NULL, NULL>>,
              <<"XP_NODE",      "A_NAN",    0, NULL, NULL, "x">>,
              <<"XP_NODE",      "A_NAN",    0, NULL, "a",  "x">>,
              <<"XP_NODE",      "A_NAN",    0, NULL, NULL, "y">>,
              <<"XP_PRIME_NR",  "A_NAN",    0, "0",  NULL, NULL>>,
              <<"XP_PRIME_NR",  "A_NAN",    1, "1",  NULL, NULL>>,
              <<"XP_PRIME_STR", "A_NAN",    0, NULL, NULL, NULL>>,
              <<"XP_PRIME_STR", "A_NAN",    0, NULL, "a",  NULL>> }
        ChildOperands ==
            { <<"XP_NODE",      "A_NAN",    0, NULL, NULL, "x">>,
              <<"XP_PRIME_NR",  "A_NAN",    1, "1",  NULL, NULL>> }
        M == IF flagged THEN {0, 1} ELSE {0}
        Leaf == {<<>>} \cup { <<Node(o, m, <<>>, <<>>)>> : o \in ChildOperands, m \in M }
    IN  { Node(o, m, c0, c1) : o \in RootOperands, m \in M, c0 \in Leaf, c1 \in Leaf }

\* All trees of exactly n nodes over one operand setting, flags anywhere.
SelfTreesN[n \in 0..(MaxNodes + 1)] ==
    IF n = 0 THEN {}
    ELSE LET Opt(k) == IF k = 0 THEN {<<>>} ELSE { <<t>> : t \in SelfTreesN[k] }
             Kids   == UNION { Opt(i) \X Opt(n - 1 - i) : i \in 0..(n - 1) }
         IN  { Node(<<"XP_NODE", "A_NAN", 0, NULL, NULL, "x">>, m, cc[1], cc[2]) :
                 m \in {0, 1}, cc \in Kids }

SelfTrees == UNION { SelfTreesN[n] : n \in 1..MaxNodes }

\* Entries the caller's vector already holds: pointers into earlier trees.
OldVec(k) == [ i \in 1..k |-> [root |-> "old", path |-> <<i>>] ]

\* The pointer xt2 of the outermost call.
Xt2Ptr == [root |-> "xt2", path |-> <<>>]

InitEq ==
    /\ pc = "call"
    /\ \/ xt1 \in PairTrees(TRUE) /\ xt2 \in PairTrees(FALSE)
       \/ xt1 \in SelfTrees /\ xt2 = xt1
    /\ vec0 \in { OldVec(k) : k \in 0..MaxVec0 }
    /\ failat \in 0..MaxFailAt
    /\ vec = vec0
    /\ len = Len(vec0)
    /\ retval = -1
    /\ xpath0 = <<>> /\ xpt = <<>> /\ xpath1 = <<>> /\ xpt1 = <<>>
    /\ nsc0 = <<>> /\ yspec = <<>> /\ nsc1p = <<>> /\ cbreason = <<>>
    /\ alloced = {} /\ freed = <<>>
    /\ dbg = 0 /\ xpathp = <<>> /\ xnode = 0 /\ xmlflags = <<>> /\ flags = {} /\ delivered = <<>>
    /\ fout = <<>>
    /\ AppIdle

\* ret = xpath_tree_eq(xt1, xt2, &vec, &len)
CallTreeEq ==
    /\ pc = "call"
    /\ LET r == xpath_tree_eq(xt1, xt2, Xt2Ptr,
                              [retval |-> -1, vec |-> vec0, len |-> Len(vec0),
                               nalloc |-> 0, failat |-> failat])
       IN  /\ vec' = r.vec
           /\ len' = r.len
           /\ retval' = r.retval
    /\ pc' = "done"
    /\ UNCHANGED <<xt1, xt2, vec0, failat, textvars, canonvars, heapvars, apivars, appvars>>

NextEq == CallTreeEq

SpecEq == InitEq /\ [][NextEq]_vars

(***************************************************************************)
(* Parsing, unparsing and parsing again                                    *)
(***************************************************************************)
\* The XPath texts handed to xpath_parse: sentences of the grammar, built
\* production by production.
RTSentences ==
    LET nodetests == { <<"x">>, <<"a", ":", "x">>, <<"*">>, <<"text", "(", ")">> }
        axes == { <<>>, <<"@">>, <<"ancestor", "::">>, <<"child", "::">> }
        predicates == { <<>>, <<"[", "1", "]">>, <<"[", "y", "=", "'", "v", "'", "]">> }
        steps ==
            { ax \o nt \o pr : ax \in axes, nt \in nodetests, pr \in predicates }
                \cup { <<".">>, <<"..">> }
        laststeps == { <<"x">>, <<"*">>, <<".">> }
        relpaths ==
            steps \cup { st \o <<sep>> \o la :
                           st \in steps, sep \in {"/", "//"}, la \in laststeps }
        locpaths ==
            relpaths \cup { <<"/">> }
                \cup { <<sep>> \o r : sep \in {"/", "//"}, r \in relpaths }
        primaries ==
            { <<"1">>, <<"'", "a", "'">>, <<"'", "'">>, <<"(", "1", ")">>,
              <<"(", "x", ")">>, <<"count", "(", "x", ")">>, <<"not", "(", ")">>,
              <<"count", "(", "x", ",", "1", ")">> }
        pathexprs ==
            locpaths \cup primaries
                \cup { pe \o <<sep>> \o <<"x">> : pe \in primaries, sep \in {"/", "//"} }
        operands == { <<"x">>, <<"1">>, <<"/", "x">>, <<"x", "|", "y">>, <<"x", "=", "1">> }
        operators == { "and", "or", "=", "!=", "<", ">", "+", "-", "|" }
    IN  pathexprs \cup { l \o <<op>> \o r : l \in operands, op \in operators,
                                            r \in operands }

\* The pointer the second tree is known by in xpath_tree_eq.
Xpt1Ptr == [root |-> "xpt1", path |-> <<>>]

InitRT ==
    /\ pc = "call"
    /\ xpath0 \in RTSentences
    /\ failat = 0
    /\ retval = -1
    /\ xpt = <<>> /\ xpath1 = <<>> /\ xpt1 = <<>>
    /\ xt1 = <<>> /\ xt2 = <<>> /\ vec0 = <<>> /\ vec = <<>> /\ len = 0
    /\ nsc0 = <<>> /\ yspec = <<>> /\ nsc1p = <<>> /\ cbreason = <<>>
    /\ alloced = {} /\ freed = <<>>
    /\ dbg = 0 /\ xpathp = <<>> /\ xnode = 0 /\ xmlflags = <<>> /\ flags = {} /\ delivered = <<>>
    /\ fout = <<>>
    /\ AppIdle

\* if (xpath_parse(xpath0, &xpt) < 0) err;
RTParse ==
    /\ pc = "call"
    /\ LET r == xpath_parse(<<xpath0>>, xpt, [nalloc |-> 0, failat |-> failat, debug |-> dbg,
                                             alloced |-> {}, freed |-> <<>>])
       IN  /\ xpt' = r.xptree
           /\ retval' = r.retval
           /\ pc' = IF r.retval < 0 THEN "err" ELSE "parsed"
    /\ UNCHANGED <<failat, eqvars, xpath0, xpath1, xpt1, canonvars, heapvars, apivars, appvars>>

\* xcb = cbuf_new(); xpath_tree2cbuf(xpt, xcb); xpath1 = cbuf_get(xcb);
RTUnparse ==
    /\ pc = "parsed"
    /\ xpath1' = <<xpath_tree2cbuf(xpt[1], <<>>)>>
    /\ retval' = 0
    /\ pc' = "printed"
    /\ UNCHANGED <<failat, eqvars, xpath0, xpt, xpt1, canonvars, heapvars, apivars, appvars>>

\* if (xpath_parse(xpath1, &xpt1) < 0) err;
RTReparse ==
    /\ pc = "printed"
    /\ LET r == xpath_parse(xpath1, xpt1, [nalloc |-> 0, failat |-> failat, debug |-> dbg,
                                          alloced |-> {}, freed |-> <<>>])
       IN  /\ xpt1' = r.xptree
           /\ retval' = r.retval
           /\ pc' = IF r.retval < 0 THEN "err" ELSE "reparsed"
    /\ UNCHANGED <<failat, eqvars, xpath0, xpt, xpath1, canonvars, heapvars, apivars, appvars>>

\* ret = xpath_tree_eq(xpt, xpt1, &vec, &len)
RTCompare ==
    /\ pc = "reparsed"
    /\ LET r == xpath_tree_eq(xpt[1], xpt1[1], Xpt1Ptr,
                              [retval |-> -1, vec |-> vec, len |-> len,
                               nalloc |-> 0, failat |-> failat])
       IN  /\ vec' = r.vec
           /\ len' = r.len
           /\ retval' = r.retval
    /\ pc' = "done"
    /\ UNCHANGED <<failat, xt1, xt2, vec0, textvars, canonvars, heapvars, apivars, appvars>>

NextRT == RTParse \/ RTUnparse \/ RTReparse \/ RTCompare

SpecRT == InitRT /\ [][NextRT]_vars

(***************************************************************************)
(* Calls of xpath2canonical                                                *)
(***************************************************************************)
(* Calls of xpath_parse: one call on a text that is null, empty, malformed *)
(* or well formed, with and without the debug print, any one allocation    *)
(* failing.                                                                *)
(***************************************************************************)
MaxParseFailAt == 2

\* Texts the grammar rejects.
BadSentences ==
    { <<>>, <<"/", "/">>, <<"x", "[">>, <<"x", "[", "1">>, <<"'", "v">>,
      <<"x", "and">>, <<")">>, <<"x", "y">>, <<"count", "(", "x">>,
      <<"x", "|">>, <<"::", "x">>, <<"]">> }

\* The tree the caller's pointer may hold before the call.
OldTree == xp_new("XP_PRIME_STR", "A_NAN", NULL, "old", NULL, <<>>, <<>>)

InitParse ==
    /\ pc = "call"
    /\ xpathp \in {<<>>} \cup { <<s>> : s \in BadSentences \cup RTSentences }
    /\ xpt \in {<<>>, <<OldTree>>}
    /\ dbg \in {0, 2}
    /\ failat \in 0..MaxParseFailAt
    /\ retval = -1
    /\ alloced = {} /\ freed = <<>>
    /\ xpath0 = <<>> /\ xpath1 = <<>> /\ xpt1 = <<>>
    /\ xt1 = <<>> /\ xt2 = <<>> /\ vec0 = <<>> /\ vec = <<>> /\ len = 0
    /\ nsc0 = <<>> /\ yspec = <<>> /\ nsc1p = <<>> /\ cbreason = <<>>
    /\ xnode = 0 /\ xmlflags = <<>> /\ flags = {} /\ delivered = <<>>
    /\ fout = <<>>
    /\ AppIdle

\* ret = xpath_parse(xpath, &xpt)
CallParse ==
    /\ pc = "call"
    /\ LET r == xpath_parse(xpathp, xpt, [nalloc |-> 0, failat |-> failat, debug |-> dbg,
                                          alloced |-> {}, freed |-> <<>>])
       IN  /\ retval' = r.retval
           /\ xpt' = r.xptree
           /\ alloced' = r.alloced
           /\ freed' = r.freed
    /\ pc' = "done"
    /\ UNCHANGED <<failat, eqvars, xpath0, xpath1, xpt1, canonvars, apivars, appvars>>

\* xpath_tree_print(stderr, xpt) on the tree a successful call delivered; the
\* allocation of the print may fail.
CallTreePrint ==
    /\ pc = "done" /\ retval = 0 /\ xpt # <<>>
    /\ \E nomem \in 0..1 :
          LET r == xpath_tree_print(fout, xpt[1], [nalloc |-> 0, failat |-> nomem])
          IN  /\ retval' = r.retval
              /\ fout' = r.f
              /\ alloced' = r.alloced
              /\ freed' = r.freed
    /\ pc' = "xpath_tree_print"
    /\ UNCHANGED <<failat, eqvars, textvars, canonvars, dbg, xpathp, xnode,
                   xmlflags, flags, delivered, appvars>>

NextParse == CallParse \/ CallTreePrint

SpecParse == InitParse /\ [][NextParse]_vars

(***************************************************************************)
\* Node tests of the texts: unprefixed, with the prefixes c and a, wildcard.
CanonSentences ==
    LET nodetests(name) ==
            { pf \o <<name>> : pf \in { <<>>, <<"c", ":">>, <<"a", ":">> } }
                \cup { <<"*">> }
    IN  { <<"/">> \o n : n \in nodetests("x") }
            \cup { <<"/">> \o n \o <<"/">> \o m :
                     n \in nodetests("x"), m \in nodetests("y") }
            \cup { <<"/", "x", "[">> \o m \o <<"=", "'", "v", "'", "]">> :
                     m \in nodetests("y") }

Namespaces == { "urn:example:a", "urn:example:b", "urn:example:z" }

\* The context binding the default namespace, c and a to d, c and a, NULL
\* for a prefix left unbound.
Nsctx(d, c, a) ==
    SelectSeq(<< [prefix |-> NULL, ns |-> d], [prefix |-> "c", ns |-> c],
                 [prefix |-> "a", ns |-> a] >>,
              LAMBDA b : b.ns # NULL)

CanonContexts ==
    { Nsctx(d, c, a) : d \in Namespaces \cup {NULL},
                       c \in {"urn:example:a", "urn:example:b", NULL},
                       a \in {"urn:example:a", NULL} }

\* A yang spec of up to two modules; pa and pb are their prefixes, "none"
\* for a module that is not loaded, NULL for one without prefix statement.
Yspec(pa, pb) ==
    SelectSeq(<< [name |-> "A", namespace |-> "urn:example:a", prefix |-> pa],
                 [name |-> "B", namespace |-> "urn:example:b", prefix |-> pb] >>,
              LAMBDA m : m.prefix # "none")

CanonYspecs ==
    { Yspec(pa, pb) : pa \in {"a", "p", NULL, "none"}, pb \in {"b", "p", NULL, "none"} }

InitCanon ==
    /\ pc = "call"
    /\ xpath0 \in CanonSentences
    /\ nsc0 \in CanonContexts
    /\ yspec \in CanonYspecs
    /\ failat \in 0..MaxCanonFailAt
    /\ retval = -1
    /\ xpath1 = <<>> /\ nsc1p = <<>> /\ cbreason = <<>>
    /\ xpt = <<>> /\ xpt1 = <<>>
    /\ xt1 = <<>> /\ xt2 = <<>> /\ vec0 = <<>> /\ vec = <<>> /\ len = 0
    /\ alloced = {} /\ freed = <<>>
    /\ dbg = 0 /\ xpathp = <<>> /\ xnode = 0 /\ xmlflags = <<>> /\ flags = {} /\ delivered = <<>>
    /\ fout = <<>>
    /\ AppIdle

\* ret = xpath2canonical(xpath0, nsc0, yspec, &xpath1, &nsc1, &reason)
CallCanonical ==
    /\ pc = "call"
    /\ LET r == xpath2canonical(<<xpath0>>, nsc0, yspec,
                                [xpath1 |-> xpath1, nsc1p |-> nsc1p,
                                 cbreason |-> cbreason], failat)
       IN  /\ retval' = r.retval
           /\ xpath1' = r.xpath1
           /\ nsc1p' = r.nsc1p
           /\ cbreason' = r.cbreason
           /\ alloced' = r.alloced
           /\ freed' = r.freed
    /\ pc' = "done"
    /\ UNCHANGED <<failat, eqvars, xpath0, xpt, xpt1, nsc0, yspec, apivars, appvars>>

NextCanon == CallCanonical

SpecCanon == InitCanon /\ [][NextCanon]_vars

(***************************************************************************)
(* Vocabulary of the properties of xpath_tree_eq                           *)
(***************************************************************************)
(* Calls of the evaluation functions: a caller evaluates one expression at *)
(* one node with each of the functions in turn (the calls share no state,  *)
(* so their order makes no difference), the same allocation of each call   *)
(* failing.                                                                *)
(***************************************************************************)
MaxApiFailAt == 5

\* The expressions: paths that match, paths that match nothing, a bound
\* that is not reached, a prefix, expressions that are no nodeset, a call
\* the evaluator rejects, positions inside and outside a nodeset, and
\* comparisons of a nodeset with a literal and with a nodeset.
ApiSentences ==
    { <<"/", "a", "/", "b">>, <<"/", "a", "/", "b", "[", "2", "]">>,
      <<"/", "a", "/", "c", "[", "2", "]">>, <<"b">>, <<"c">>, <<"x">>, <<"*">>,
      <<".">>, <<"..">>, <<"//", "b">>, <<"b", "|", "c">>, <<"c", "|", "b">>,
      <<"p", ":", "b">>, <<"b", "[", ".", "=", "'", "2", "'", "]">>,
      <<"/", "a", "/", "b", "=", "'", "1", "'">>, <<"b", "=", "c">>,
      <<"1">>, <<"0">>, <<"'", "v", "'">>, <<"'", "'">>,
      <<"count", "(", "b", ")">>, <<"not", "(", "b", ")">>,
      <<"count", "(", ")">>, <<"b", "+", "1">>, <<"//", "*">>,
      <<"/", "a", "/", "b", "[", "3", "]">>, <<"/", "a", "/", "b", "[", "1", "]">>,
      <<"b", "[", "0", "]">>, <<"//", "*", "[", "3", "]">>,
      <<"x", "=", "'", "1", "'">>, <<"b", "!=", "'", "1", "'">>, <<"b", "=", "2">>,
      <<"b", "<", "2">>, <<"b", ">", "2">>, <<"c", "=", "x">>, <<"b", "=", "b">>,
      <<"c", "!=", "c">>, <<"b", "!=", "b">> }

\* The namespace contexts of the caller: the namespace of the document or
\* another one as the default, the prefix p bound or not.
ApiContexts ==
    { << [prefix |-> NULL, ns |-> "urn:example:a"] >>,
      << [prefix |-> NULL, ns |-> "urn:example:b"] >>,
      << [prefix |-> NULL, ns |-> "urn:example:a"],
         [prefix |-> "p", ns |-> "urn:example:a"] >> }

\* The flags the nodes carry.
ApiXmlFlags ==
    { [x \in DOMAIN XmlTree |-> {}],
      [x \in DOMAIN XmlTree |-> IF x \in {2, 4} THEN {"XML_FLAG_MARK"}
                                ELSE IF x = 5 THEN {"XML_FLAG_ADD"} ELSE {}] }

\* The caller's variables before a call: a stale vector, length and count.
ApiCaller ==
    [called |-> FALSE, retval |-> -1, cx |-> 0, vec |-> <<0>>, veclen |-> 1,
     count |-> 1, alloced |-> {}, freed |-> <<>>]

ApiFunctions ==
    { "xpath_first", "xpath_first_localonly", "xpath_vec", "xpath_vec_flag",
      "xpath_vec_bool", "xpath_count" }

InitApi ==
    /\ pc = "call"
    /\ xpath0 \in ApiSentences
    /\ nsc0 \in ApiContexts
    /\ xnode \in {1, 2}
    /\ xmlflags \in ApiXmlFlags
    /\ flags \in {{}, {"XML_FLAG_MARK"}}
    /\ failat \in 0..MaxApiFailAt
    /\ dbg = 0
    /\ delivered = [f \in ApiFunctions |-> ApiCaller]
    /\ fout = <<>>
    /\ AppIdle
    /\ retval = -1
    /\ alloced = {} /\ freed = <<>>
    /\ xpathp = <<>> /\ xpt = <<>> /\ xpath1 = <<>> /\ xpt1 = <<>>
    /\ xt1 = <<>> /\ xt2 = <<>> /\ vec0 = <<>> /\ vec = <<>> /\ len = 0
    /\ yspec = <<>> /\ nsc1p = <<>> /\ cbreason = <<>>

\* The heap at the start of a call.
ApiHeap == [nalloc |-> 0, failat |-> failat, debug |-> dbg, alloced |-> {}, freed |-> <<>>]

\* The call of function f has handed back r; the heap of the call is kept
\* until the next call.
ApiReturn(f, r) ==
    /\ delivered' = [delivered EXCEPT ![f] = [r EXCEPT !.alloced = {}, !.freed = <<>>]]
    /\ retval' = r.retval
    /\ alloced' = r.alloced
    /\ freed' = r.freed
    /\ pc' = f
    /\ UNCHANGED <<failat, eqvars, textvars, canonvars, dbg, xpathp, xnode, xmlflags, flags, fout, appvars>>

\* x = xpath_first(xcur, nsc, xpath)
CallFirst ==
    /\ pc = "call"
    /\ ApiReturn("xpath_first",
                 xpath_first(xnode, nsc0, xpath0, ApiCaller, ApiHeap))

\* x = xpath_first_localonly(xcur, xpath)
CallFirstLocalonly ==
    /\ pc = "xpath_first"
    /\ ApiReturn("xpath_first_localonly",
                 xpath_first_localonly(xnode, xpath0, ApiCaller, ApiHeap))

\* ret = xpath_vec(xcur, nsc, xpath, &vec, &veclen)
CallVec ==
    /\ pc = "xpath_first_localonly"
    /\ ApiReturn("xpath_vec",
                 xpath_vec(xnode, nsc0, xpath0, ApiCaller, ApiHeap))

\* ret = xpath_vec_flag(xcur, nsc, xpath, flags, &vec, &veclen)
CallVecFlag ==
    /\ pc = "xpath_vec"
    /\ ApiReturn("xpath_vec_flag",
                 xpath_vec_flag(xnode, nsc0, xpath0, flags, xmlflags, ApiCaller, ApiHeap))

\* ret = xpath_vec_bool(xcur, nsc, xpath)
CallVecBool ==
    /\ pc = "xpath_vec_flag"
    /\ ApiReturn("xpath_vec_bool",
                 xpath_vec_bool(xnode, nsc0, xpath0, ApiCaller, ApiHeap))

\* ret = xpath_count(xcur, nsc, xpath, &count)
CallCount ==
    /\ pc = "xpath_vec_bool"
    /\ ApiReturn("xpath_count",
                 xpath_count(xnode, nsc0, xpath0, ApiCaller, ApiHeap))

NextApi ==
    \/ CallFirst
    \/ CallFirstLocalonly
    \/ CallVec
    \/ CallVecFlag
    \/ CallVecBool
    \/ CallCount

SpecApi == InitApi /\ [][NextApi]_vars

(***************************************************************************)
\* The node at a path of a tree that has it.
At(t, path) == xpath_tree_traverse(t, path)[1]

HasPath(t, path) == xpath_tree_traverse(t, path) # <<>>

\* The paths of all nodes of t in pre-order: node, first child, second child.
RECURSIVE PreorderPaths(_)
PreorderPaths(t) ==
    LET under(c, sel) ==
            IF c = <<>> THEN <<>>
            ELSE LET ps == PreorderPaths(c[1])
                 IN  [ i \in 1..Len(ps) |-> <<sel>> \o ps[i] ]
    IN  <<(<<>>)>> \o under(t.xs_c0, 0) \o under(t.xs_c1, 1)

Range(s) == { s[i] : i \in 1..Len(s) }

Flagged(t, path) == At(t, path).xs_match # 0

\* Some node strictly above path carries the match flag.
UnderFlagged(t, path) ==
    \E k \in 0..(Len(path) - 1) : Flagged(t, SubSeq(path, 1, k))

\* Kinds that may face each other: the same kind, or two literals.
KindsCompatible(k1, k2) ==
    \/ k1 = k2
    \/ {k1, k2} = {"XP_PRIME_NR", "XP_PRIME_STR"}

SameOperands(n1, n2) ==
    /\ n1.xs_int = n2.xs_int
    /\ n1.xs_double = n2.xs_double
    /\ n1.xs_s0 = n2.xs_s0
    /\ n1.xs_s1 = n2.xs_s1

SamePresence(n1, n2) ==
    /\ (n1.xs_c0 = <<>>) <=> (n2.xs_c0 = <<>>)
    /\ (n1.xs_c1 = <<>>) <=> (n2.xs_c1 = <<>>)

\* The relation "pattern p matches candidate c", position by position:
\* every pattern node that is not below a flagged one faces a candidate node
\* of a compatible kind and, unless it is flagged itself, with the same
\* operands and children in the same slots.
Matches(p, c) ==
    \A q \in Range(PreorderPaths(p)) :
        (~UnderFlagged(p, q) /\ HasPath(c, q)) =>
            /\ KindsCompatible(At(p, q).xs_type, At(c, q).xs_type)
            /\ \/ Flagged(p, q)
               \/ SameOperands(At(p, q), At(c, q)) /\ SamePresence(At(p, q), At(c, q))

\* The flagged pattern positions a successful comparison reaches, in pre-order.
CapturePaths(p) ==
    SelectSeq(PreorderPaths(p), LAMBDA q : Flagged(p, q) /\ ~UnderFlagged(p, q))

PtrsOf(paths) == [ i \in 1..Len(paths) |-> [root |-> "xt2", path |-> paths[i]] ]

Done == pc = "done"

(***************************************************************************)
(* Properties of xpath_tree_eq (SpecEq)                                    *)
(***************************************************************************)
\* What xpath_tree_eq tests at one pattern node against the node it faces.
NodeOK(q) ==
    /\ KindsCompatible(At(xt1, q).xs_type, At(xt2, q).xs_type)
    /\ \/ Flagged(xt1, q)
       \/ SameOperands(At(xt1, q), At(xt2, q)) /\ SamePresence(At(xt1, q), At(xt2, q))

\* Every pattern node the traversal compares before it comes to the i-th
\* node in pre-order passes its tests.
EarlierOK(i) ==
    \A j \in 1..(i - 1) :
        LET q == PreorderPaths(xt1)[j]
        IN  (~UnderFlagged(xt1, q) /\ HasPath(xt2, q)) => NodeOK(q)

IndexOf(seq, x) == CHOOSE i \in 1..Len(seq) : seq[i] = x

\* C1 as stated: a pattern node that carries the match flag makes the
\* comparison of that node succeed at once, and the candidate's node is
\* appended to the capture vector (allocation permitting).
C1_AsStated ==
    (Done /\ xt1.xs_match # 0 /\ failat # 1) =>
        /\ retval = 1
        /\ vec = Append(vec0, Xt2Ptr)
        /\ len = Len(vec0) + 1

\* C1 amended: a flagged pattern node whose kind is compatible with the kind
\* of the candidate node it faces makes the comparison of that node succeed
\* at once, whatever the operands and children are, and a pointer to the
\* candidate node is appended at the end of the capture vector; the only
\* other outcome is -1 when realloc fails.
C1_FlaggedShortCircuit ==
    Done =>
        /\ (xt1.xs_match # 0 /\ KindsCompatible(xt1.xs_type, xt2.xs_type)) =>
               IF failat = 1 THEN retval = -1
               ELSE /\ retval = 1
                    /\ vec = Append(vec0, Xt2Ptr)
                    /\ len = Len(vec0) + 1
        /\ \A i \in 1..Len(CapturePaths(xt1)) :
               LET q == CapturePaths(xt1)[i]
               IN  ( /\ HasPath(xt2, q)
                     /\ EarlierOK(IndexOf(PreorderPaths(xt1), q))
                     /\ KindsCompatible(At(xt1, q).xs_type, At(xt2, q).xs_type)
                     /\ retval # -1 ) =>
                        /\ len >= Len(vec0) + i
                        /\ vec[Len(vec0) + i] = [root |-> "xt2", path |-> q]

\* C1 witness: a flagged root facing a node of another (compatible) kind with
\* other operands and other children, and the comparison succeeded.
C1_Witness ==
    /\ Done /\ xt1.xs_match # 0 /\ retval = 1
    /\ xt1.xs_type # xt2.xs_type
    /\ ~SameOperands(xt1, xt2) /\ ~SamePresence(xt1, xt2)
    /\ vec = Append(vec0, Xt2Ptr) /\ vec0 # <<>>

\* C2 as stated: comparing a tree with itself gives 1 and every flagged node
\* of the tree is in the capture vector (no allocation failing).
C2_AsStated ==
    (Done /\ xt2 = xt1 /\ retval # -1) =>
        /\ retval = 1
        /\ \A q \in Range(PreorderPaths(xt1)) :
               Flagged(xt1, q) => [root |-> "xt2", path |-> q] \in Range(vec)

\* C2 amended: comparing a tree with itself gives 1 (-1 exactly when realloc
\* fails), and every flagged node that has no flagged node above it is in
\* the capture vector; flagged nodes below a flagged node are not visited.
C2_Reflexive ==
    (Done /\ xt2 = xt1) =>
        /\ retval = IF failat \in 1..Len(CapturePaths(xt1)) THEN -1 ELSE 1
        /\ retval = 1 =>
               \A q \in Range(PreorderPaths(xt1)) :
                   /\ (Flagged(xt1, q) /\ ~UnderFlagged(xt1, q)) =>
                          [root |-> "xt2", path |-> q] \in Range(vec)
                   /\ UnderFlagged(xt1, q) =>
                          [root |-> "xt2", path |-> q] \notin Range(vec)

\* C2 witness: a tree compared with itself, with two flagged nodes captured,
\* one of them two levels down.
C2_Witness ==
    /\ Done /\ xt2 = xt1 /\ retval = 1
    /\ Len(CapturePaths(xt1)) >= 2
    /\ \E q \in Range(CapturePaths(xt1)) :
           Len(q) >= 2 /\ [root |-> "xt2", path |-> q] \in Range(vec)

\* C3: two nodes facing each other are compatible in kind iff their kinds
\* are equal or they are a number literal and a string literal, in either
\* direction: an incompatible pair gives 0 and captures nothing, a
\* successful comparison never faced an incompatible pair, and two literals
\* of different kinds that agree in everything else compare equal.
C3_KindCompatibility ==
    Done =>
        /\ ~KindsCompatible(xt1.xs_type, xt2.xs_type) =>
               retval = 0 /\ vec = vec0 /\ len = Len(vec0)
        /\ retval = 1 =>
               \A q \in Range(PreorderPaths(xt1)) :
                   ~UnderFlagged(xt1, q) =>
                       /\ HasPath(xt2, q)
                       /\ KindsCompatible(At(xt1, q).xs_type, At(xt2, q).xs_type)
        /\ ( /\ {xt1.xs_type, xt2.xs_type} = {"XP_PRIME_NR", "XP_PRIME_STR"}
             /\ Matches(xt1, xt2)
             /\ retval # -1 ) => retval = 1

\* C3 witness: an unflagged string literal compared equal to a number
\* literal.
C3_Witness ==
    /\ Done /\ retval = 1 /\ xt1.xs_match = 0
    /\ xt1.xs_type = "XP_PRIME_STR" /\ xt2.xs_type = "XP_PRIME_NR"

\* Slot sel of the two roots: absent in both, or present in both with the
\* pattern's child matching the candidate's.
SlotMatches(c1, c2) ==
    \/ c1 = <<>> /\ c2 = <<>>
    \/ c1 # <<>> /\ c2 # <<>> /\ Matches(c1[1], c2[1])

\* C4: for an unflagged pattern node the operand code, both operand strings
\* and both child slots decide: a difference in xs_int, s0 or s1 gives 0, a
\* child present in one tree only gives 0, and the result is 1 exactly
\* when the operands agree and each slot is absent in both trees or holds
\* children that match.
C4_UnflaggedCompare ==
    (Done /\ xt1.xs_match = 0 /\ KindsCompatible(xt1.xs_type, xt2.xs_type)) =>
        /\ ( \/ xt1.xs_int # xt2.xs_int
             \/ xt1.xs_s0 # xt2.xs_s0
             \/ xt1.xs_s1 # xt2.xs_s1 ) => retval = 0
        /\ (~SamePresence(xt1, xt2) /\ retval # -1) => retval = 0
        /\ retval # -1 =>
               ( retval = 1 <=>
                    /\ SameOperands(xt1, xt2)
                    /\ SlotMatches(xt1.xs_c0, xt2.xs_c0)
                    /\ SlotMatches(xt1.xs_c1, xt2.xs_c1) )

\* C4 witness: an unflagged root with one slot absent in both trees and an
\* unflagged child in the other, compared equal.
C4_Witness ==
    /\ Done /\ xt1.xs_match = 0 /\ retval = 1
    /\ xt1.xs_c0 # <<>> /\ xt1.xs_c0[1].xs_match = 0
    /\ xt1.xs_c1 = <<>> /\ xt2.xs_c1 = <<>>
    /\ xt1.xs_s1 # NULL

\* C5: the captures are appended in pre-order of the pattern: after a
\* successful comparison the vector is the old vector followed by the
\* candidate nodes facing the flagged pattern nodes (those not below a
\* flagged node) in the order node, first child, second child; after an
\* unsuccessful one it is the old vector followed by a prefix of them.
C5_PreorderCaptures ==
    (Done /\ retval >= 0) =>
        LET caps == PtrsOf(CapturePaths(xt1))
        IN  /\ Len(vec) = len
            /\ retval = 1 => vec = vec0 \o caps
            /\ retval = 0 =>
                   \E k \in 0..Len(caps) : vec = vec0 \o SubSeq(caps, 1, k)

\* C5 witness: three captures, two under the first child and one at the
\* second child, after an old entry.
C5_Witness ==
    /\ Done /\ retval = 1 /\ vec0 # <<>>
    /\ vec = vec0 \o PtrsOf(<< <<0, 0>>, <<0, 1>>, <<1>> >>)

(***************************************************************************)
(* Properties of parsing and unparsing (SpecRT)                            *)
(***************************************************************************)
\* C6 as stated: the text xpath_tree2cbuf writes for the tree of a valid
\* XPath text parses again, and xpath_tree_eq (no match flag set) reports the
\* tree it parses to equal to the first tree.
C6_RoundTrip ==
    /\ pc # "err"
    /\ Done => retval = 1

\* What xpath_tree2cbuf writes for node xs itself, its children left out.
OwnText(xs) == Tree2cbufBefore(xs) \o Tree2cbufBetween(xs) \o Tree2cbufAfter(xs)

\* The node was built by a production that reads a lexeme of its own: a node
\* test, a literal, a function name, a parenthesis, a slash, an operator, a
\* bracket, a comma, or a step with '.', '..', '@' or an axis name (a step on
\* the child axis may be written without one).
HasSyntax(xs) ==
    CASE xs.xs_type \in {"XP_NODE", "XP_NODE_FN", "XP_PRI0", "XP_PRIME_NR",
                         "XP_PRIME_STR", "XP_PRIME_FN", "XP_ABSPATH"} -> TRUE
      [] xs.xs_type = "XP_STEP" -> xs.xs_int # "A_CHILD"
      [] xs.xs_type \in {"XP_AND", "XP_RELEX", "XP_ADD", "XP_UNION",
                         "XP_RELLOCPATH", "XP_PRED"} -> xs.xs_c1 # <<>>
      [] xs.xs_type = "XP_PATHEXPR" -> xs.xs_s0 # NULL
      [] xs.xs_type = "XP_EXP" -> xs.xs_c0 # <<>> /\ xs.xs_c1 # <<>>
      [] OTHER -> FALSE

\* C18 as stated: xpath_tree2cbuf regenerates the syntax of every node kind
\* with spellings the parser accepts: every node of the tree that has syntax
\* of its own gets text written for it, and the parser accepts the text.
C18_EveryKindSpelled ==
    (pc = "printed") =>
        /\ \A q \in Range(PreorderPaths(xpt[1])) :
               HasSyntax(At(xpt[1], q)) => OwnText(At(xpt[1], q)) # <<>>
        /\ clixon_xpath_parseparse(xpath1[1]) # <<>>

(***************************************************************************)
(* Properties of xpath2canonical (SpecCanon)                               *)
(***************************************************************************)
\* The tree xpath0 parses to.
Parsed == clixon_xpath_parseparse(xpath0)[1]

\* The places of the node tests of t that name a node, and of those that
\* are the wildcard.
NameTests(t) ==
    { q \in Range(PreorderPaths(t)) :
        At(t, q).xs_type = "XP_NODE" /\ At(t, q).xs_s1 # "*" }

Wildcards(t) ==
    { q \in Range(PreorderPaths(t)) :
        At(t, q).xs_type = "XP_NODE" /\ At(t, q).xs_s1 = "*" }

\* The namespaces the input context binds to prefix (NULL: the default).
BoundTo(prefix) == { b.ns : b \in { c \in Range(nsc0) : c.prefix = prefix } }

\* The modules owning namespace ns.
Owners(ns) == { m \in Range(yspec) : m.namespace = ns }

\* The pair (canonical prefix, namespace) of node test n: the prefix declared
\* by the module owning the namespace n's prefix is bound to; empty when
\* one of the three is missing.
CanonPairs(n) ==
    { [prefix |-> m.prefix, ns |-> m.namespace] :
        m \in { o \in Range(yspec) :
                  o.namespace \in BoundTo(n.xs_s0) /\ o.prefix # NULL } }

\* The node tests of t that name a node, in pre-order.
NamedNodes(t) ==
    LET ps == SelectSeq(PreorderPaths(t),
                        LAMBDA q : At(t, q).xs_type = "XP_NODE" /\ At(t, q).xs_s1 # "*")
    IN  [ i \in 1..Len(ps) |-> At(t, ps[i]) ]

\* Those that do not resolve, in pre-order.
Problems(t) == SelectSeq(NamedNodes(t), LAMBDA n : CanonPairs(n) = {})

\* The reason that tells what node test n lacks.
ProblemReason(n) ==
    IF BoundTo(n.xs_s0) = {}
    THEN <<"No namespace found for prefix: ",
           IF n.xs_s0 = NULL THEN "(null)" ELSE n.xs_s0>>
    ELSE LET ns == CHOOSE u \in BoundTo(n.xs_s0) : TRUE
         IN  IF Owners(ns) = {}
             THEN <<"No modules found for namespace: ", ns>>
             ELSE <<"No prefix found in module: ", (CHOOSE m \in Owners(ns) : TRUE).name>>

C8_CanonicalPrefix ==
    /\ (Done /\ retval = 1) =>
           LET p  == Parsed
               t1 == clixon_xpath_parseparse(xpath1[1])
           IN  /\ t1 # <<>>
               /\ \A q \in NameTests(p) :
                      /\ HasPath(t1[1], q)
                      /\ At(t1[1], q).xs_type = "XP_NODE"
                      /\ At(t1[1], q).xs_s1 = At(p, q).xs_s1
                      /\ {At(t1[1], q).xs_s0} =
                             { pr.prefix : pr \in CanonPairs(At(p, q)) }
    /\ ( /\ Done /\ failat = 0
         /\ xpath0 = <<"/", "x", "/", "c", ":", "y">>
         /\ nsc0 = Nsctx("urn:example:a", "urn:example:b", NULL)
         /\ yspec = Yspec("a", "b") ) =>
           retval = 1 /\ xpath1 = << <<"/", "a", ":", "x", "/", "b", ":", "y">> >>

\* C8 witness: the example of the claim.
C8_Witness ==
    /\ Done /\ retval = 1
    /\ xpath0 = <<"/", "x", "/", "c", ":", "y">>
    /\ nsc0 = Nsctx("urn:example:a", "urn:example:b", NULL)
    /\ xpath1 = << <<"/", "a", ":", "x", "/", "b", ":", "y">> >>

\* C9 as stated: after outcome 1 the output context holds exactly one pair
\* (canonical prefix, namespace) for each namespace a node test other than
\* '*' uses, nothing else and nothing twice; for '/x' with default
\* urn:example:a owned by a module with prefix a it is the pair
\* a -> urn:example:a alone.
C9_MinimalContext ==
    /\ (Done /\ retval = 1) =>
           /\ nsc1p # <<>>
           /\ Range(nsc1p[1]) = UNION { CanonPairs(n) : n \in Range(NamedNodes(Parsed)) }
           /\ Cardinality(Range(nsc1p[1])) = Len(nsc1p[1])
    /\ ( /\ Done /\ failat = 0
         /\ xpath0 = <<"/", "x">>
         /\ xml_nsctx_get(nsc0, NULL) = "urn:example:a"
         /\ yang_find_module_by_namespace(yspec, "urn:example:a") # <<>>
         /\ yang_find_myprefix(yang_find_module_by_namespace(yspec, "urn:example:a")) = "a" ) =>
           nsc1p = << <<[prefix |-> "a", ns |-> "urn:example:a"]>> >>

\* C10: a wildcard node test takes no part in the resolution: a text whose
\* node tests are all '*' never fails with outcome 0, whatever the input
\* context binds, and comes back as it was with an empty output context;
\* outcome 0 is always due to a node test that names a node; after outcome
\* 1 every '*' stands in the text written without prefix, as before, and
\* the output context holds only prefixes of the node tests that name a
\* node.
C10_WildcardUntouched ==
    Done =>
        LET p == Parsed
            named == NamedNodes(p)
        IN  /\ named = <<>> =>
                   /\ retval # 0
                   /\ failat = 0 =>
                          retval = 1 /\ xpath1 = <<xpath0>> /\ nsc1p = << <<>> >>
            /\ retval = 0 => \E n \in Range(named) : CanonPairs(n) = {}
            /\ retval = 1 =>
                   LET t1 == clixon_xpath_parseparse(xpath1[1])
                   IN  /\ t1 # <<>>
                       /\ \A q \in Wildcards(p) :
                              HasPath(t1[1], q) /\ At(t1[1], q) = At(p, q)
                       /\ { b.prefix : b \in Range(nsc1p[1]) } \subseteq
                              { pr.prefix :
                                  pr \in UNION { CanonPairs(n) : n \in Range(named) } }

\* C10 witness: '/*/c:y' canonicalized under a context without default
\* binding: the wildcard is written as it was, only b is in the context.
C10_Witness ==
    /\ Done /\ retval = 1
    /\ xpath0 = <<"/", "*", "/", "c", ":", "y">>
    /\ xml_nsctx_get(nsc0, NULL) = NULL
    /\ xpath1 = << <<"/", "*", "/", "b", ":", "y">> >>
    /\ nsc1p = << <<[prefix |-> "b", ns |-> "urn:example:b"]>> >>

(***************************************************************************)
(* Properties of xpath_parse (SpecParse)                                   *)
(***************************************************************************)
\* The objects of a set of heap objects that are nodes of a parse tree or
\* strings a node owns.
TreeObjects(cells) == { c \in cells : c.field \in {"xs", "xs_strnr", "xs_s0", "xs_s1"} }

\* The objects the call allocated and has not freed.
Live == alloced \ Range(freed)

\* C14: xpath_parse rejects a null and an empty XPath text: the call returns
\* the error status and the caller's tree pointer is left as it was.
C14_RejectsNullOrEmpty ==
    [][(xpathp \in {<<>>, << <<>> >>}) => (retval' = -1 /\ xpt' = xpt)]_vars

C14_Witness ==
    /\ Done /\ xpathp = <<>> /\ retval = -1 /\ xpt = <<OldTree>>

Handed ==
    IF pc = "done" /\ retval = 0 /\ xpt # <<>> THEN xp_new_cells(xpt[1], <<>>) ELSE {}

\* C16: when a call of xpath_parse or of xpath_tree_print has returned, with
\* success or with an error, every object the call allocated has been freed,
\* but for the tree handed to the caller.
C16_Released == (pc # "call") => (Live \subseteq Handed)

(***************************************************************************)
(* Properties of the heap of xpath2canonical (SpecCanon)                   *)
(***************************************************************************)
\* No object is freed twice.
FreedOnce == \A i, j \in 1..Len(freed) : freed[i] = freed[j] => i = j

\* The prefixes the call replaced: the old string and the new one of a node.
Replaced ==
    { c \in TreeObjects(alloced) :
        /\ c.field = "xs_s0"
        /\ \E d \in TreeObjects(alloced) :
              d.field = "xs_s0" /\ d.path = c.path /\ d.val # c.val }

\* C17: when xpath2canonical has returned, every node of the parse tree and
\* every string a node owned (number text, s0, s1) has been freed exactly
\* once, the prefixes replaced by traverse_canonical included: the old
\* string of a replaced prefix and the new one are each freed once, and
\* nothing is freed that was not allocated.
C17_FreedExactlyOnce ==
    Done => /\ FreedOnce
            /\ Range(freed) \subseteq alloced
            /\ TreeObjects(alloced) \subseteq Range(freed)

C17_Witness ==
    /\ Done /\ retval = 1 /\ Replaced # {}
    /\ \E c \in TreeObjects(alloced) : c.field = "xs_s1"

(***************************************************************************)
(* Properties of the evaluation functions (SpecApi)                        *)
(***************************************************************************)
\* The function has been called.
Called(f) == delivered[f].called

\* The text function f has evaluated.
ApiText(f) == IF f = "xpath_count" THEN <<"count", "(">> \o xpath0 \o <<")">> ELSE xpath0

\* What evaluating text at the caller's node gives when no allocation
\* fails: "syntax" for a text that does not parse, else what xp_eval
\* returns.
Evaluated(text, localonly) ==
    LET t == clixon_xpath_parseparse(text)
    IN  IF t = <<>> THEN [retval |-> -1, xr |-> <<>>]
        ELSE xp_eval(xpath_vec_ctx_xc(xnode), t[1],
                     [nsc |-> IF localonly = 1 THEN <<>> ELSE nsc0, localonly |-> localonly])

ApiEvaluated(f) == Evaluated(ApiText(f), IF f = "xpath_first_localonly" THEN 1 ELSE 0)

\* The nodes of the nodeset E evaluates to (none for any other result).
NodesetOf(e) ==
    IF e.retval = 0 /\ e.xr[1].xc_type = "XT_NODESET" THEN e.xr[1].xc_nodeset ELSE <<>>

\* The allocations a call of f makes when none fails: the text or buffer,
\* the parser, the start context, the result, and for xpath_vec_flag one
\* for each node it hands back.
ApiAllocations(f) ==
    4 + (IF f = "xpath_vec_flag"
         THEN Cardinality({ i \in DOMAIN NodesetOf(ApiEvaluated(f)) :
                              flags = {} \/ xmlflags[NodesetOf(ApiEvaluated(f))[i]] \cap flags # {} })
         ELSE 0)

\* The call of f ran into an error: the text does not parse, the evaluator
\* rejects it, or an allocation of the call fails.
Fault(f) == ApiEvaluated(f).retval < 0 \/ failat \in 1..ApiAllocations(f)

FirstFunctions == {"xpath_first", "xpath_first_localonly"}
StatusFunctions == ApiFunctions \ FirstFunctions

\* The call of f was a successful evaluation with an empty result: no
\* nodes, or the boolean false.
EmptyResult(f) ==
    /\ ~Fault(f)
    /\ LET xr == Evaluated(xpath0, IF f = "xpath_first_localonly" THEN 1 ELSE 0).xr[1]
       IN  \/ xr.xc_type = "XT_NODESET" /\ xr.xc_size = 0
           \/ xr.xc_type = "XT_BOOL" /\ xr.xc_bool = 0

\* C11 as the claim states it: at each of the six functions a call that ran
\* into an error hands back something a successful call with an empty
\* result never hands back: a status of -1, or for the two functions that
\* return a node something else than NULL.
C11_AsStated ==
    \A f \in ApiFunctions :
        (Called(f) /\ Fault(f)) =>
            IF f \in FirstFunctions THEN delivered[f].cx # 0 ELSE delivered[f].retval = -1

\* C11: xpath_vec, xpath_vec_flag, xpath_vec_bool and xpath_count return -1
\* exactly when the call ran into an error and 0 (xpath_vec_bool: 0 or 1)
\* otherwise, so an empty result differs from an error; xpath_first and
\* xpath_first_localonly return NULL for an error as they do for no match.
C11_StatusTellsError ==
    \A f \in ApiFunctions :
        Called(f) =>
            IF f \in FirstFunctions
            THEN (Fault(f) \/ EmptyResult(f)) => delivered[f].cx = 0
            ELSE /\ delivered[f].retval = -1 <=> Fault(f)
                 /\ delivered[f].retval \in {-1, 0, 1}
                 /\ delivered[f].retval = 1 => f = "xpath_vec_bool"

C11_Witness ==
    /\ pc = "xpath_count" /\ xpath0 = <<"x">> /\ failat = 0
    /\ \A f \in ApiFunctions : EmptyResult(f)
    /\ delivered["xpath_first"].cx = 0
    /\ delivered["xpath_vec"].retval = 0 /\ delivered["xpath_vec"].veclen = 0
    /\ delivered["xpath_vec_bool"].retval = 0
    /\ delivered["xpath_count"].retval = 0 /\ delivered["xpath_count"].count = 0

\* C12: when xpath_count and xpath_vec both succeed on expression E, the
\* count xpath_count delivers is the length xpath_vec delivers, which is the
\* number of nodes in its vector.
C12_CountIsVecLength ==
    (Called("xpath_count") /\ delivered["xpath_count"].retval = 0
        /\ delivered["xpath_vec"].retval = 0)
    => /\ delivered["xpath_count"].count = delivered["xpath_vec"].veclen
       /\ delivered["xpath_vec"].veclen = Len(delivered["xpath_vec"].vec)

C12_Witness ==
    /\ Called("xpath_count") /\ xpath0 = <<"/", "a", "/", "b">>
    /\ delivered["xpath_count"].retval = 0 /\ delivered["xpath_count"].count = 2
    /\ delivered["xpath_vec"].retval = 0 /\ delivered["xpath_vec"].vec = <<3, 4>>

\* C13: for an expression E that evaluates to a nodeset, xpath_vec_bool
\* returns 1 if the vector xpath_vec delivers has nodes and 0 if it has
\* none.
C13_BoolIsNonEmpty ==
    (Called("xpath_vec_bool") /\ delivered["xpath_vec_bool"].retval # -1
        /\ delivered["xpath_vec"].retval = 0
        /\ ApiEvaluated("xpath_vec").xr[1].xc_type = "XT_NODESET")
    => delivered["xpath_vec_bool"].retval =
          (IF delivered["xpath_vec"].veclen > 0 THEN 1 ELSE 0)

C13_Witness ==
    /\ Called("xpath_vec_bool") /\ xpath0 = <<"/", "a", "/", "c", "[", "2", "]">>
    /\ delivered["xpath_vec_bool"].retval = 0
    /\ delivered["xpath_vec"].retval = 0 /\ delivered["xpath_vec"].veclen = 0

\* C19: when xpath_vec succeeds, the result of the evaluation not being a
\* nodeset, it delivers the null vector and length 0; the result being a
\* nodeset, it delivers the nodes and their number, and the vector it hands
\* to the caller is not freed when the result context is.
C19_VecHandsOver ==
    (pc = "xpath_vec" /\ retval = 0)
    => LET xr == ApiEvaluated("xpath_vec").xr[1]
           d == delivered["xpath_vec"]
       IN  IF xr.xc_type # "XT_NODESET" THEN d.vec = <<>> /\ d.veclen = 0
           ELSE /\ d.vec = xr.xc_nodeset /\ d.veclen = xr.xc_size
                /\ Obj("xr") \in Range(freed)
                /\ d.vec # <<>> => Obj("xr->xc_nodeset") \in Live

C19_Witness ==
    /\ pc = "xpath_vec" /\ retval = 0 /\ xpath0 = <<"/", "a", "/", "b">>
    /\ delivered["xpath_vec"].vec = <<3, 4>> /\ delivered["xpath_vec"].veclen = 2

\* The nodes of sequence s that carry one of the requested flags.
Carrying(s) == SelectSeq(s, LAMBDA x : xmlflags[x] \cap flags # {})

\* C20: when xpath_vec_flag succeeds it delivers, in the order of the
\* result, the nodes of the evaluated nodeset that carry the requested flag
\* and no other node; with no flag requested it delivers every node of the
\* nodeset, as xpath_vec does.
C20_FlagFilter ==
    (Called("xpath_vec_flag") /\ delivered["xpath_vec_flag"].retval = 0)
    => LET d == delivered["xpath_vec_flag"]
           nodes == NodesetOf(ApiEvaluated("xpath_vec_flag"))
       IN  /\ d.veclen = Len(d.vec)
           /\ flags # {} => d.vec = Carrying(nodes)
           /\ flags = {} => d.vec = nodes
           /\ (flags = {} /\ delivered["xpath_vec"].retval = 0)
                 => d.vec = delivered["xpath_vec"].vec

C20_Witness ==
    /\ Called("xpath_vec_flag") /\ delivered["xpath_vec_flag"].retval = 0
    /\ xpath0 = <<"//", "*">> /\ flags = {"XML_FLAG_MARK"}
    /\ delivered["xpath_vec"].vec = <<2, 3, 4, 5>>
    /\ delivered["xpath_vec_flag"].vec = <<2, 4>>

\* The text ends in a predicate that is a number: E[N].
PositionPredicate(text) ==
    /\ Len(text) >= 4
    /\ text[Len(text) - 2] = "[" /\ text[Len(text)] = "]"
    /\ text[Len(text) - 1] \in NumberLexemes

\* C21: a predicate whose result is a number keeps the node at that position
\* of the current nodeset, counted from 1: xpath_vec on E[N] succeeds and
\* delivers the N-th node of what E selects, and no node when E selects
\* fewer than N or N is 0; where '/a/b' selects the two b of the document,
\* '/a/b[2]' is the second b and '/a/b[3]' is empty with status 0.
C21_PositionPredicate ==
    (Called("xpath_vec") /\ failat = 0 /\ PositionPredicate(xpath0))
    => LET base == NodesetOf(Evaluated(SubSeq(xpath0, 1, Len(xpath0) - 3), 0))
           n == NumVal(xpath0[Len(xpath0) - 1])
           d == delivered["xpath_vec"]
       IN  /\ d.retval = 0
           /\ d.vec = IF n \in 1..Len(base) THEN <<base[n]>> ELSE <<>>
           /\ d.veclen = Len(d.vec)
           /\ (base = <<3, 4>> /\ n = 2) => d.vec = <<4>>
           /\ (base = <<3, 4>> /\ n = 3) => d.vec = <<>>

C21_Witness ==
    /\ Called("xpath_vec") /\ failat = 0
    /\ xpath0 = <<"/", "a", "/", "b", "[", "3", "]">>
    /\ NodesetOf(Evaluated(<<"/", "a", "/", "b">>, 0)) = <<3, 4>>
    /\ delivered["xpath_vec"].retval = 0 /\ delivered["xpath_vec"].vec = <<>>
    /\ delivered["xpath_vec"].veclen = 0

\* The places of the comparison operators of a text, and the texts that are
\* one comparison of two operands without predicates.
RelOpsAt(text) == { k \in DOMAIN text : text[k] \in {"=", "!=", "<", ">"} }

Comparison(text) ==
    /\ Cardinality(RelOpsAt(text)) = 1
    /\ \A k \in DOMAIN text : text[k] # "["

\* The relation op between two values, numbers <<n>> (<<>>: not a number)
\* when byNumber, strings otherwise.
Related(op, byNumber, v, w) ==
    IF byNumber
    THEN CASE op = "=" -> v # <<>> /\ w # <<>> /\ v[1] = w[1]
           [] op = "!=" -> ~(v # <<>> /\ w # <<>> /\ v[1] = w[1])
           [] op = "<" -> v # <<>> /\ w # <<>> /\ v[1] < w[1]
           [] op = ">" -> v # <<>> /\ w # <<>> /\ v[1] > w[1]
    ELSE IF op = "=" THEN v = w ELSE v # w

\* The values operand xr stands for in a comparison: one for each node of a
\* nodeset, from the node's string value, one for a literal.
OperandValues(xr, byNumber) ==
    CASE xr.xc_type = "XT_NODESET" ->
            { IF byNumber THEN xp_str2number(xml_body(xr.xc_nodeset[i]))
              ELSE xml_body(xr.xc_nodeset[i]) : i \in 1..xr.xc_size }
      [] xr.xc_type = "XT_NUMBER" -> {xr.xc_number}
      [] xr.xc_type = "XT_STRING" ->
            {IF byNumber THEN xp_str2number(xr.xc_string) ELSE xr.xc_string}

\* C22: a comparison with a nodeset operand is true iff some node of the
\* nodeset (some pair of nodes, with two nodesets) satisfies the relation,
\* the string value of a node taken as a number when the other operand is
\* one or the relation is an order: xpath_vec_bool returns 1 then and 0
\* otherwise; '/a/b = '1'' is true where /a/b selects the b with 1 and the b
\* with 2, and a comparison with an empty nodeset is false.
C22_ExistentialComparison ==
    (Called("xpath_vec_bool") /\ failat = 0 /\ Comparison(xpath0))
    => LET k == CHOOSE j \in RelOpsAt(xpath0) : TRUE
           l == Evaluated(SubSeq(xpath0, 1, k - 1), 0).xr[1]
           r == Evaluated(SubSeq(xpath0, k + 1, Len(xpath0)), 0).xr[1]
           byNumber == "XT_NUMBER" \in {l.xc_type, r.xc_type} \/ xpath0[k] \in {"<", ">"}
           some == \E v \in OperandValues(l, byNumber), w \in OperandValues(r, byNumber) :
                      Related(xpath0[k], byNumber, v, w)
           d == delivered["xpath_vec_bool"]
       IN  "XT_NODESET" \in {l.xc_type, r.xc_type} =>
               /\ d.retval = IF some THEN 1 ELSE 0
               /\ (l.xc_type = "XT_NODESET" /\ l.xc_size = 0) => d.retval = 0
               /\ (r.xc_type = "XT_NODESET" /\ r.xc_size = 0) => d.retval = 0
               /\ (l.xc_nodeset = <<3, 4>> /\ xpath0[k] = "=" /\ r.xc_string = "1")
                      => d.retval = 1

C22_Witness ==
    /\ Called("xpath_vec_bool") /\ failat = 0
    /\ xpath0 = <<"/", "a", "/", "b", "=", "'", "1", "'">>
    /\ NodesetOf(Evaluated(<<"/", "a", "/", "b">>, 0)) = <<3, 4>>
    /\ delivered["xpath_vec_bool"].retval = 1


-----------------------------------------------------------------------------
\* The restconf daemon's request callbacks (apps/restconf/restconf_main_evhtp.c).
\* The handle's parameters are a function from names to values.  A name is a
\* sequence of pieces of text, so that convert_fcgi can build one letter by
\* letter.

MaxRequests == 2
MaxRestFailAt == 4

\* The requests: uri and path may be missing, the protocol may be one the
\* daemon does not speak, the connection may carry a client certificate, and
\* the header list holds zero, one or two headers.  failat is the fallible
\* call that fails (0: none), api is what the api function returns.  There
\* is no path without a uri and no subject without a certificate.
Requests ==
  { r \in
    [uri : {NULL, "uri"}, path : {NULL, "/restconf/data"}, query : {NULL, "depth=1"},
     method : {"GET"}, proto : {"EVHTP_PROTO_11", "EVHTP_PROTO_INVALID"},
     ssl : BOOLEAN, subject : {NULL, "/CN=alice"},
     headers_in : {<<>>, <<[key |-> <<"H", "o", "s", "t">>, val |-> "example.org"]>>,
                   <<[key |-> <<"X", "-", "a">>, val |-> "1"]>>},
     failat : 0..MaxRestFailAt, api : {0, -1}] :
        /\ (r.uri = NULL => r.path = NULL /\ r.query = NULL)
        /\ (~r.ssl => r.subject = NULL) }

\* restconf_param_set stores val under name, replacing an older value; it
\* can fail, and then stores nothing.
restconf_param_set(st, name, val) ==
    IF AllocOk(st)
    THEN [st EXCEPT !.nalloc = @ + 1, !.ret = 0,
                    !.params = [x \in (DOMAIN @) \cup {name} |->
                                   IF x = name THEN val ELSE @[x]]]
    ELSE [st EXCEPT !.nalloc = @ + 1, !.ret = -1]

\* restconf_param_del_all removes every parameter of the handle.
restconf_param_del_all(st) ==
    [st EXCEPT !.params = <<>>, !.ret = 0]

\* A library call that can fail and stores no parameter (cvec_new,
\* evhtp_kvs_for_each, restconf_badrequest, str2cvec, cbuf_new).
Fallible(st) ==
    [st EXCEPT !.nalloc = @ + 1, !.ret = IF AllocOk(st) THEN 0 ELSE -1]

\* convert_fcgi: HTTP_ in front, lower case letters to upper case, - to _.
convert_fcgi(st, hdr) ==
    LET toupper == [c \in {"o", "s", "t", "a"} |->
                       CASE c = "o" -> "O" [] c = "s" -> "S" [] c = "t" -> "T"
                         [] c = "a" -> "A"]
        conv(c) == IF c \in DOMAIN toupper THEN toupper[c]
                   ELSE IF c = "-" THEN "_" ELSE c
        cb == Fallible(st)
    IN  IF cb.ret < 0 THEN cb
        ELSE restconf_param_set(cb,
                 <<"HTTP_">> \o [i \in 1..Len(hdr.key) |-> conv(hdr.key[i])], hdr.val)

\* evhtp_headers_for_each(headers, convert_fcgi, h): stops at the first
\* header whose callback fails.
RECURSIVE evhtp_headers_for_each(_, _)
evhtp_headers_for_each(st, headers) ==
    IF headers = <<>> THEN [st EXCEPT !.ret = 0]
    ELSE LET s1 == convert_fcgi(st, Head(headers))
         IN  IF s1.ret < 0 THEN s1 ELSE evhtp_headers_for_each(s1, Tail(headers))

\* evhtp_params_set: ret is 1 (continue), 0 (request rejected) or -1 (error).
evhtp_params_set(st, r, qvec) ==
    IF r.uri = NULL THEN [st EXCEPT !.ret = -1]
    ELSE IF r.path = NULL THEN [st EXCEPT !.ret = -1]
    ELSE LET s1 == IF qvec /\ r.query # NULL THEN Fallible(st) ELSE [st EXCEPT !.ret = 0]
             s2 == restconf_param_set(s1, <<"REQUEST_METHOD">>, r.method)
             s3 == restconf_param_set(s2, <<"REQUEST_URI">>, r.path)
             bad == Fallible(s3)
             s4 == restconf_param_set(s3, <<"HTTPS">>, "https")
             cvv == Fallible(s4)
             cn == IF r.subject = "/CN=alice" THEN "alice" ELSE NULL  \* cvec_find_str(cvv, "CN")
             s5 == restconf_param_set(cvv, <<"SSL_CN">>, cn)
             s6 == IF ~r.ssl THEN s3
                   ELSE IF r.subject = NULL THEN s4
                   ELSE IF cn = NULL THEN cvv ELSE s5
             s7 == evhtp_headers_for_each(s6, r.headers_in)
         IN  IF s1.ret < 0 THEN s1
             ELSE IF s2.ret < 0 THEN s2
             ELSE IF s3.ret < 0 THEN s3
             ELSE IF r.proto # "EVHTP_PROTO_10" /\ r.proto # "EVHTP_PROTO_11"
                  THEN (IF bad.ret < 0 THEN bad ELSE [bad EXCEPT !.ret = 0])
             ELSE IF r.ssl /\ s4.ret < 0 THEN s4
             ELSE IF r.ssl /\ r.subject # NULL /\ cvv.ret < 0 THEN cvv
             ELSE IF r.ssl /\ r.subject # NULL /\ cn # NULL /\ s5.ret < 0 THEN s5
             ELSE IF s7.ret < 0 THEN s7
             ELSE [s7 EXCEPT !.ret = 1]

\* api_well_known and api_root_restconf read the parameters and answer the
\* request; what they return is the request's api field.
api_call(st, r) ==
    [st EXCEPT !.seen = <<st.params>>, !.ret = r.api]

\* cx_path_wellknown: no query vector; the parameters are deleted after the
\* api function has returned 0 and after a rejected request.
cx_path_wellknown(st, r) ==
    LET s1 == evhtp_params_set(st, r, FALSE)
        s2 == IF s1.ret = 1 THEN api_call(s1, r) ELSE s1
    IN  IF s1.ret < 0 THEN s1
        ELSE IF s1.ret = 1 /\ s2.ret < 0 THEN s2
        ELSE restconf_param_del_all(s2)

\* cx_path_restconf: the same, after the query vector has been allocated.
cx_path_restconf(st, r) ==
    LET qvec == Fallible(st)
        s1 == evhtp_params_set(qvec, r, TRUE)
        s2 == IF s1.ret = 1 THEN api_call(s1, r) ELSE s1
    IN  IF qvec.ret < 0 THEN qvec
        ELSE IF s1.ret < 0 THEN s1
        ELSE IF s1.ret = 1 /\ s2.ret < 0 THEN s2
        ELSE restconf_param_del_all(s2)

InitRestconf ==
    /\ pc = "serve"
    /\ XpathIdle
    /\ AppIdle

CallWellknown ==
    /\ pc = "serve"
    /\ nreq < MaxRequests
    /\ \E r \in Requests :
         /\ LET d == cx_path_wellknown([params |-> params, nalloc |-> 0, failat |-> r.failat,
                                         ret |-> 0, seen |-> <<>>], r)
            IN  /\ params' = d.params
                /\ seen' = d.seen
                /\ req' = r
    /\ nreq' = nreq + 1
    /\ UNCHANGED <<pc, failat, retval, eqvars, textvars, canonvars, heapvars, apivars,
                   privvars, sigvars, clivars, idemvars>>

CallRestconf ==
    /\ pc = "serve"
    /\ nreq < MaxRequests
    /\ \E r \in Requests :
         /\ LET d == cx_path_restconf([params |-> params, nalloc |-> 0, failat |-> r.failat,
                                         ret |-> 0, seen |-> <<>>], r)
            IN  /\ params' = d.params
                /\ seen' = d.seen
                /\ req' = r
    /\ nreq' = nreq + 1
    /\ UNCHANGED <<pc, failat, retval, eqvars, textvars, canonvars, heapvars, apivars,
                   privvars, sigvars, clivars, idemvars>>

NextRestconf ==
    \/ CallWellknown
    \/ CallRestconf

SpecRestconf == InitRestconf /\ [][NextRestconf]_vars

\* The parameters a request sets when the handle holds none.
OwnParams(r) ==
    evhtp_params_set([params |-> <<>>, nalloc |-> 0, failat |-> 0, ret |-> 0,
                      seen |-> <<>>], r, FALSE).params

\* C23: after a /restconf or /.well-known callback has returned, the handle
\* holds no parameter, whichever path the callback took, and the parameters
\* an api function found are all parameters of the request it serves.
C23_ParamsDeleted ==
    /\ (nreq > 0 => DOMAIN params = {})
    /\ (seen # <<>> =>
           \A name \in DOMAIN seen[1] :
               /\ name \in DOMAIN OwnParams(req)
               /\ seen[1][name] = OwnParams(req)[name])


-----------------------------------------------------------------------------
\* Dropping and restoring privileges (drop_priv_temp, drop_priv_perm,
\* restore_priv).  The process has a real, an effective and a saved user id;
\* (uid_t)-1 as an argument of setresuid means "leave this id as it is".

MaxPrivCalls == 3
Uids == 0..2
Unchanged == -1     \* (uid_t)-1

\* setresuid(ruid, euid, suid): a process whose effective id is 0 may set any
\* id; another process may set each id only to one of its three current
\* ids.  ok is FALSE when the kernel refuses the call for another reason
\* (EAGAIN).  Yields the return value and the ids after the call.
setresuid(ids, ruid, euid, suid, ok) ==
    LET may(u) == u = Unchanged \/ ids.e = 0 \/ u \in {ids.r, ids.e, ids.s}
        new(old, u) == IF u = Unchanged THEN old ELSE u
    IN  IF ok /\ may(ruid) /\ may(euid) /\ may(suid)
        THEN [ret |-> 0, ids |-> [r |-> new(ids.r, ruid), e |-> new(ids.e, euid),
                                  s |-> new(ids.s, suid)]]
        ELSE [ret |-> -1, ids |-> ids]

\* drop_priv_temp with the saved id left alone: restore_priv then goes back
\* to whatever the saved id was, not to the effective id before the drop.
drop_priv_temp_nosave(ids, new_uid, have, ok) ==
    IF ~have THEN [ret |-> 0, ids |-> ids]
    ELSE LET c == setresuid(ids, Unchanged, new_uid, Unchanged, ok)
         IN  IF c.ret < 0 THEN c
             ELSE IF c.ids.e # new_uid THEN [c EXCEPT !.ret = -1]
             ELSE [c EXCEPT !.ret = 0]

\* drop_priv_temp: the effective id becomes new_uid and the saved id keeps
\* the old effective id.  Without HAVE_GETRESUID nothing is done and 0 is
\* returned.
drop_priv_temp(ids, new_uid, have, ok) ==
    IF ~have THEN [ret |-> 0, ids |-> ids]
    ELSE LET c == setresuid(ids, Unchanged, new_uid, ids.e, ok)
         IN  IF c.ret < 0 THEN c
             ELSE IF c.ids.e # new_uid THEN [c EXCEPT !.ret = -1]
             ELSE [c EXCEPT !.ret = 0]

\* drop_priv_perm: all three ids become new_uid, and are read back.
drop_priv_perm(ids, new_uid, have, ok) ==
    IF ~have THEN [ret |-> 0, ids |-> ids]
    ELSE LET c == setresuid(ids, new_uid, new_uid, new_uid, ok)
         IN  IF c.ret < 0 THEN c
             ELSE IF c.ids.r # new_uid \/ c.ids.e # new_uid \/ c.ids.s # new_uid
                  THEN [c EXCEPT !.ret = -1]
             ELSE [c EXCEPT !.ret = 0]

\* restore_priv: the effective id becomes the saved id.
restore_priv(ids, have, ok) ==
    IF ~have THEN [ret |-> 0, ids |-> ids]
    ELSE LET suid == ids.s
             c == setresuid(ids, Unchanged, suid, Unchanged, ok)
         IN  IF c.ret < 0 THEN c
             ELSE IF c.ids.e # suid THEN [c EXCEPT !.ret = -1]
             ELSE [c EXCEPT !.ret = 0]

\* One call, recorded with its argument, its return value and the ids
\* before and after it.
PrivCall(fn, arg, c) ==
    /\ pc = "priv"
    /\ Len(privlog) < MaxPrivCalls
    /\ uids' = c.ids
    /\ privlog' = Append(privlog, [fn |-> fn, arg |-> arg, ret |-> c.ret,
                                   before |-> uids, after |-> c.ids])
    /\ UNCHANGED <<pc, failat, retval, eqvars, textvars, canonvars, heapvars, apivars,
                   restvars, have_getresuid, sigvars, clivars, idemvars>>

InitPriv ==
    /\ pc = "priv"
    /\ XpathIdle
    /\ params = <<>> /\ req = <<>> /\ seen = <<>> /\ nreq = 0
    /\ uids \in [r : Uids, e : Uids, s : Uids]
    /\ have_getresuid \in BOOLEAN
    /\ privlog = <<>>
    /\ eh = <<>> /\ released = <<>> /\ sigpc = <<>> /\ sig_i = 0 /\ nsig = 0
    /\ cdat = <<>> /\ regfd = {} /\ subs = <<>> /\ notlog = <<>>
    /\ retval2 = 0 /\ xpath2 = <<>> /\ nsc2p = <<>>

CallDropPrivTemp ==
    /\ \E new_uid \in Uids \cup {Unchanged}, ok \in BOOLEAN :
          PrivCall("drop_priv_temp", new_uid,
                   drop_priv_temp(uids, new_uid, have_getresuid, ok))

CallDropPrivPerm ==
    /\ \E new_uid \in Uids \cup {Unchanged}, ok \in BOOLEAN :
          PrivCall("drop_priv_perm", new_uid,
                   drop_priv_perm(uids, new_uid, have_getresuid, ok))

CallRestorePriv ==
    /\ \E ok \in BOOLEAN :
          PrivCall("restore_priv", Unchanged, restore_priv(uids, have_getresuid, ok))

NextPriv ==
    \/ CallDropPrivTemp
    \/ CallDropPrivPerm
    \/ CallRestorePriv

SpecPriv == InitPriv /\ [][NextPriv]_vars

\* A successful call of fn at position i of the log, followed by a
\* successful restore_priv.
ThenRestored(fn, i) ==
    /\ i \in 1..(Len(privlog) - 1)
    /\ privlog[i].fn = fn /\ privlog[i].ret = 0
    /\ privlog[i + 1].fn = "restore_priv" /\ privlog[i + 1].ret = 0

\* The temporary half of C24: drop_priv_temp(u) and then restore_priv, both
\* successful, leave the effective id as it was before the drop and the real
\* id unchanged.
TempReversible ==
    \A i \in 1..MaxPrivCalls :
        ThenRestored("drop_priv_temp", i) =>
            /\ privlog[i + 1].after.e = privlog[i].before.e
            /\ privlog[i + 1].after.r = privlog[i].before.r
            /\ privlog[i].after.r = privlog[i].before.r

\* The permanent half of C24: after a successful drop_priv_perm(u) the three
\* ids are u, and a restore_priv that follows leaves the effective id at u.
PermIrreversible(i) ==
    (i \in 1..Len(privlog) /\ privlog[i].fn = "drop_priv_perm" /\ privlog[i].ret = 0) =>
        /\ privlog[i].after = [r |-> privlog[i].arg, e |-> privlog[i].arg,
                               s |-> privlog[i].arg]
        /\ (i < Len(privlog) /\ privlog[i + 1].fn = "restore_priv" =>
                privlog[i + 1].after.e = privlog[i].arg)

\* C24 as stated: a temporary drop is undone by restore_priv, and after a
\* successful permanent drop to u all three ids are u and restore_priv
\* leaves the effective id at u.
C24_AsStated ==
    /\ TempReversible
    /\ \A i \in 1..MaxPrivCalls : PermIrreversible(i)

\* C24: a temporary drop is undone by restore_priv; on a build with
\* HAVE_GETRESUID a successful permanent drop to u sets all three ids to u
\* and restore_priv leaves the effective id at u; on a build without it the
\* three functions return 0 and change no id.
C24_DropRestore ==
    /\ TempReversible
    /\ (have_getresuid => \A i \in 1..MaxPrivCalls : PermIrreversible(i))
    /\ (~have_getresuid =>
           \A i \in 1..Len(privlog) :
               privlog[i].ret = 0 /\ privlog[i].after = privlog[i].before)

\* Root drops to user 1 for a while and comes back, then drops for good and
\* cannot come back.
C24_Witness ==
    /\ have_getresuid
    /\ Len(privlog) = 3
    /\ privlog[1].before = [r |-> 0, e |-> 0, s |-> 0]
    /\ ThenRestored("drop_priv_temp", 1)
    /\ privlog[1].arg = 1 /\ privlog[1].after.e = 1
    /\ privlog[2].after.e = 0
    /\ privlog[3].fn = "drop_priv_perm" /\ privlog[3].arg = 1 /\ privlog[3].ret = 0
    /\ uids = [r |-> 1, e |-> 1, s |-> 1]


-----------------------------------------------------------------------------
\* Termination of the restconf daemon: main's exit path and the handler of
\* SIGTERM and SIGINT both call evhtp_terminate on the global _EVHTP_HANDLE.
\* pc is main's position; a handler interrupts main, or the handler of the
\* other signal, between two statements.

MaxSignals == 2

EhFields == <<"eh_htp", "eh_evbase", "eh_ssl_config">>

\* What main has stored in _EVHTP_HANDLE when it reaches the event loop or
\* leaves for done: the ssl configuration (with -s), then the event base,
\* then the htp instance; each allocation can fail.
EhAfterSetup ==
    { h \in [eh_htp : BOOLEAN, eh_evbase : BOOLEAN, eh_ssl_config : BOOLEAN] :
          h.eh_htp => h.eh_evbase }

\* The statement of evhtp_terminate for one field: the resource is freed when
\* the field holds a pointer; the field keeps the pointer.
evhtp_terminate(field) ==
    IF eh[field] THEN [released EXCEPT ![field] = @ + 1] ELSE released

\* The position after the statement for a field.
AfterField(field) ==
    CASE field = "eh_htp" -> "eh_evbase"
      [] field = "eh_evbase" -> "eh_ssl_config"
      [] field = "eh_ssl_config" -> "restconf_terminate"

InitSig ==
    /\ pc = "setup"
    /\ XpathIdle
    /\ params = <<>> /\ req = <<>> /\ seen = <<>> /\ nreq = 0
    /\ uids = <<>> /\ have_getresuid = TRUE /\ privlog = <<>>
    /\ eh = [eh_htp |-> FALSE, eh_evbase |-> FALSE, eh_ssl_config |-> FALSE]
    /\ released = [eh_htp |-> 0, eh_evbase |-> 0, eh_ssl_config |-> 0]
    /\ sigpc = <<>>
    /\ sig_i = 0
    /\ nsig = 0
    /\ cdat = <<>> /\ regfd = {} /\ subs = <<>> /\ notlog = <<>>
    /\ retval2 = 0 /\ xpath2 = <<>> /\ nsc2p = <<>>

\* main up to the event loop: all resources created, or an allocation or a
\* later step failed and main goes to done with what it has.
MainSetup ==
    /\ pc = "setup" /\ sigpc = <<>>
    /\ \E h \in EhAfterSetup :
          /\ eh' = h
          /\ pc' = IF h.eh_htp THEN "event_base_loop" ELSE "eh_htp"
    /\ UNCHANGED <<failat, retval, eqvars, textvars, canonvars, heapvars, apivars,
                   restvars, privvars, released, sigpc, sig_i, nsig, clivars, idemvars>>

\* main: setup fails after the resources exist (goto done), or
\* event_base_loop returns.
MainDone ==
    /\ pc = "event_base_loop" /\ sigpc = <<>>
    /\ pc' = "eh_htp"
    /\ UNCHANGED <<failat, retval, eqvars, textvars, canonvars, heapvars, apivars, appvars>>

\* main at done: one statement of evhtp_terminate(&_EVHTP_HANDLE).
MainTerminate ==
    /\ pc \in {"eh_htp", "eh_evbase", "eh_ssl_config"} /\ sigpc = <<>>
    /\ released' = evhtp_terminate(pc)
    /\ pc' = AfterField(pc)
    /\ UNCHANGED <<failat, retval, eqvars, textvars, canonvars, heapvars, apivars,
                   restvars, privvars, eh, sigpc, sig_i, nsig, clivars, idemvars>>

\* main: restconf_terminate(h), then return from main.
MainReturn ==
    /\ pc \in {"restconf_terminate", "return"} /\ sigpc = <<>>
    /\ pc' = IF pc = "restconf_terminate" THEN "return" ELSE "exited"
    /\ UNCHANGED <<failat, retval, eqvars, textvars, canonvars, heapvars, apivars, appvars>>

\* SIGTERM or SIGINT is delivered: restconf_sig_term starts, on top of main
\* or of the handler of the other signal.
Signal ==
    /\ pc # "exited"
    /\ Len(sigpc) < 2
    /\ nsig < MaxSignals
    /\ sigpc' = Append(sigpc, "i")
    /\ nsig' = nsig + 1
    /\ UNCHANGED <<pc, failat, retval, eqvars, textvars, canonvars, heapvars, apivars,
                   restvars, privvars, eh, released, sig_i, clivars, idemvars>>

\* restconf_sig_term: if (i++ == 0) log, else exit(-1).
SigTest ==
    /\ pc # "exited"
    /\ sigpc # <<>> /\ sigpc[Len(sigpc)] = "i"
    /\ sig_i' = sig_i + 1
    /\ IF sig_i = 0
       THEN sigpc' = [sigpc EXCEPT ![Len(sigpc)] = "eh_htp"] /\ pc' = pc
       ELSE sigpc' = <<>> /\ pc' = "exited"
    /\ UNCHANGED <<failat, retval, eqvars, textvars, canonvars, heapvars, apivars,
                   restvars, privvars, eh, released, nsig, clivars, idemvars>>

\* restconf_sig_term: one statement of evhtp_terminate(&_EVHTP_HANDLE).
SigTerminate ==
    /\ pc # "exited"
    /\ sigpc # <<>> /\ sigpc[Len(sigpc)] \in {"eh_htp", "eh_evbase", "eh_ssl_config"}
    /\ released' = evhtp_terminate(sigpc[Len(sigpc)])
    /\ sigpc' = [sigpc EXCEPT ![Len(sigpc)] = AfterField(@)]
    /\ UNCHANGED <<pc, failat, retval, eqvars, textvars, canonvars, heapvars, apivars,
                   restvars, privvars, eh, sig_i, nsig, clivars, idemvars>>

\* restconf_sig_term: restconf_terminate, clicon_exit_set, exit(-1).
SigExit ==
    /\ pc # "exited"
    /\ sigpc # <<>> /\ sigpc[Len(sigpc)] = "restconf_terminate"
    /\ sigpc' = <<>>
    /\ pc' = "exited"
    /\ UNCHANGED <<failat, retval, eqvars, textvars, canonvars, heapvars, apivars,
                   restvars, privvars, eh, released, sig_i, nsig, clivars, idemvars>>

NextSig ==
    \/ MainSetup
    \/ MainDone
    \/ MainTerminate
    \/ MainReturn
    \/ Signal
    \/ SigTest
    \/ SigTerminate
    \/ SigExit

SpecSig == InitSig /\ [][NextSig]_vars

\* C25: no evhtp resource (htp instance, event base, ssl configuration) is
\* freed more than once in an execution of the daemon, whenever the signals
\* arrive.
C25_ReleasedOnce ==
    (pc # "setup") =>
        \A k \in 1..Len(EhFields) : released[EhFields[k]] <= 1


-----------------------------------------------------------------------------
\* The CLI's notification streams (cli_notification_register).  The socket a
\* stream's subscription is received on is recorded in the handle's data
\* under log_socket_<stream> and registered with cligen.

MaxNotifyCalls == 3

Streams == {"CLICON", "EXAMPLE"}

\* The calls that can fail, in the order of a start: malloc of the key,
\* clicon_msg_encode, clicon_rpc_msg, the reply being an rpc-error,
\* cligen_regfd, clicon_hash_add.  "none": all succeed.
NotifyFails ==
    {"none", "malloc", "clicon_msg_encode", "clicon_rpc_msg", "rpc-error",
     "cligen_regfd", "clicon_hash_add"}

\* clicon_rpc_create_subscription: the request is sent on a new socket and
\* the socket is handed out in s0; an rpc-error reply makes the call fail
\* after the socket has been opened.
clicon_rpc_create_subscription(st, stream, fail) ==
    IF fail = "clicon_msg_encode" THEN [st EXCEPT !.ret = -1]
    ELSE IF fail = "clicon_rpc_msg" THEN [st EXCEPT !.ret = -1]
    ELSE LET sent == [st EXCEPT !.subs = Append(@, stream), !.s = Len(st.subs) + 1]
         IN  IF fail = "rpc-error" THEN [sent EXCEPT !.ret = -1]
             ELSE [sent EXCEPT !.ret = 0]

\* cli_notification_register without the test for a recorded socket: every
\* start creates a subscription.
cli_notification_register_again(st, stream, status, fail) ==
    IF fail = "malloc" THEN [st EXCEPT !.ret = -1]
    ELSE IF status = 1
    THEN LET sub == clicon_rpc_create_subscription(st, stream, fail)
             reg == [sub EXCEPT !.regfd = @ \cup {sub.s}]
         IN  IF sub.ret < 0 THEN sub
             ELSE IF fail = "cligen_regfd" THEN [sub EXCEPT !.ret = -1]
             ELSE IF fail = "clicon_hash_add" THEN [reg EXCEPT !.ret = -1]
             ELSE [reg EXCEPT !.ret = 0,
                              !.cdat = [x \in (DOMAIN @) \cup {stream} |->
                                           IF x = stream THEN sub.s ELSE @[x]]]
    ELSE [st EXCEPT !.ret = 0,
                    !.regfd = IF stream \in DOMAIN st.cdat THEN @ \ {st.cdat[stream]} ELSE @,
                    !.cdat = [x \in (DOMAIN @) \ {stream} |-> @[x]]]

\* cli_notification_register(h, stream, format, filter, status, fn, arg):
\* status 1 starts the stream, 0 stops it.
cli_notification_register(st, stream, status, fail) ==
    LET s_exist == IF stream \in DOMAIN st.cdat THEN st.cdat[stream] ELSE -1
        sub == clicon_rpc_create_subscription(st, stream, fail)
        reg == [sub EXCEPT !.regfd = @ \cup {sub.s}]
    IN  IF fail = "malloc" THEN [st EXCEPT !.ret = -1]
        ELSE IF status = 1
        THEN IF s_exist # -1 THEN [st EXCEPT !.ret = -1]
             ELSE IF sub.ret < 0 THEN sub
             ELSE IF fail = "cligen_regfd" THEN [sub EXCEPT !.ret = -1]
             ELSE IF fail = "clicon_hash_add" THEN [reg EXCEPT !.ret = -1]
             ELSE [reg EXCEPT !.ret = 0,
                              !.cdat = [x \in (DOMAIN @) \cup {stream} |->
                                           IF x = stream THEN sub.s ELSE @[x]]]
        ELSE [st EXCEPT !.ret = 0,
                        !.regfd = IF s_exist # -1 THEN @ \ {s_exist} ELSE @,
                        !.cdat = [x \in (DOMAIN @) \ {stream} |-> @[x]]]

InitCli ==
    /\ pc = "cli"
    /\ XpathIdle
    /\ params = <<>> /\ req = <<>> /\ seen = <<>> /\ nreq = 0
    /\ uids = <<>> /\ have_getresuid = TRUE /\ privlog = <<>>
    /\ eh = <<>> /\ released = <<>> /\ sigpc = <<>> /\ sig_i = 0 /\ nsig = 0
    /\ cdat = <<>>
    /\ regfd = {}
    /\ subs = <<>>
    /\ notlog = <<>>
    /\ retval2 = 0 /\ xpath2 = <<>> /\ nsc2p = <<>>

\* One call, recorded with what it was given and with the record and the
\* registrations before it.
NotifyCall(stream, status, fail) ==
    LET d == cli_notification_register(
                 [cdat |-> cdat, regfd |-> regfd, subs |-> subs, s |-> -1, ret |-> 0],
                 stream, status, fail)
    IN  /\ pc = "cli"
        /\ Len(notlog) < MaxNotifyCalls
        /\ cdat' = d.cdat
        /\ regfd' = d.regfd
        /\ subs' = d.subs
        /\ notlog' = Append(notlog, [stream |-> stream, status |-> status, fail |-> fail,
                                     ret |-> d.ret, cdat |-> cdat, regfd |-> regfd,
                                     subs |-> subs])
        /\ UNCHANGED <<pc, failat, retval, eqvars, textvars, canonvars, heapvars, apivars,
                       restvars, privvars, sigvars, idemvars>>

CallNotifyStart ==
    /\ \E stream \in Streams, fail \in NotifyFails : NotifyCall(stream, 1, fail)

CallNotifyStop ==
    /\ \E stream \in Streams, fail \in {"none", "malloc"} : NotifyCall(stream, 0, fail)

NextCli ==
    \/ CallNotifyStart
    \/ CallNotifyStop

SpecCli == InitCli /\ [][NextCli]_vars

\* The record, the registrations and the subscriptions after call i.
NotifyAfter(i) ==
    IF i < Len(notlog)
    THEN [cdat |-> notlog[i + 1].cdat, regfd |-> notlog[i + 1].regfd,
          subs |-> notlog[i + 1].subs]
    ELSE [cdat |-> cdat, regfd |-> regfd, subs |-> subs]

-----------------------------------------------------------------------------
\* More properties of xpath_tree_eq (SpecEq)

\* The flagged pattern positions that face a candidate node of an
\* incompatible kind.
FlaggedIncompatible ==
    { q \in Range(PreorderPaths(xt1)) :
          /\ Flagged(xt1, q) /\ HasPath(xt2, q)
          /\ ~KindsCompatible(At(xt1, q).xs_type, At(xt2, q).xs_type) }

\* C27: the kind test comes before the match flag: a flagged pattern node
\* facing a candidate node of an incompatible kind does not capture it, and
\* when the traversal has to compare that node the comparison is not "equal"
\* (0, or -1 after an earlier failed allocation); eligible kinds (equal, or
\* number and string literal) are captured.
C27_FlagAfterKind ==
    Done =>
        /\ \A q \in FlaggedIncompatible :
              /\ \A j \in (Len(vec0) + 1)..Len(vec) : vec[j] # [root |-> "xt2", path |-> q]
              /\ ~UnderFlagged(xt1, q) => retval # 1
              /\ (~UnderFlagged(xt1, q) /\ failat = 0) => retval = 0
        /\ (xt1.xs_match # 0 /\ ~KindsCompatible(xt1.xs_type, xt2.xs_type)) =>
              retval = 0 /\ vec = vec0 /\ len = Len(vec0)
        /\ (xt1.xs_match # 0 /\ failat = 0
              /\ {xt1.xs_type, xt2.xs_type} = {"XP_PRIME_NR", "XP_PRIME_STR"}) =>
              retval = 1 /\ vec = Append(vec0, Xt2Ptr)

\* C27 witness: under roots that agree, a flagged number literal faces a
\* name test: nothing is captured and the result is 0.
C27_Witness ==
    /\ Done /\ retval = 0 /\ failat = 0
    /\ xt1.xs_match = 0
    /\ xt1.xs_c0 # <<>> /\ xt2.xs_c0 # <<>>
    /\ xt1.xs_c0[1].xs_match # 0
    /\ xt1.xs_c0[1].xs_type = "XP_PRIME_NR" /\ xt2.xs_c0[1].xs_type = "XP_NODE"
    /\ <<0>> \in FlaggedIncompatible
    /\ vec = vec0 /\ len = Len(vec0)


\* C28: xpath_tree_eq only appends to the capture vector: after the call the
\* entries the vector held before are still its first entries, the length
\* has not gone down and counts the entries, and after the result 0 the
\* captures made before the mismatch are still there.
C28_AppendOnly ==
    Done =>
        /\ Len(vec0) <= Len(vec)
        /\ SubSeq(vec, 1, Len(vec0)) = vec0
        /\ len = Len(vec)
        /\ retval = 0 =>
               \E k \in 0..Len(CapturePaths(xt1)) :
                   vec = vec0 \o SubSeq(PtrsOf(CapturePaths(xt1)), 1, k)


-----------------------------------------------------------------------------
\* More properties of unparsing (SpecRT)

\* The tree t with the axis code of its node at path replaced by axis.
RECURSIVE WithAxis(_, _, _)
WithAxis(t, path, axis) ==
    IF path = <<>> THEN [t EXCEPT !.xs_int = axis]
    ELSE IF Head(path) = 0
    THEN [t EXCEPT !.xs_c0 = <<WithAxis(t.xs_c0[1], Tail(path), axis)>>]
    ELSE [t EXCEPT !.xs_c1 = <<WithAxis(t.xs_c1[1], Tail(path), axis)>>]

\* The axis codes other than self and parent.
SilentAxes == (DOMAIN axis_type_map) \ {"A_SELF", "A_PARENT"}

\* The places of the steps of t.
Steps(t) == { q \in Range(PreorderPaths(t)) : At(t, q).xs_type = "XP_STEP" }

-----------------------------------------------------------------------------
\* xpath2canonical called a second time, on the xpath and the namespace
\* context the first call handed out.

\* Texts with prefixed, unprefixed and wildcard node tests, a node-type
\* test, and axes.
IdemSentences ==
    { <<"/", "x">>, <<"/", "c", ":", "x", "/", "y">>, <<"/", "a", ":", "x">>,
      <<"/", "*">>, <<"/", "x", "[", "y", "=", "'", "v", "'", "]">>,
      <<"x", "/", "text", "(", ")">>, <<"self", "::", "x">>, <<"@", "x">> }

InitIdem ==
    /\ pc = "call"
    /\ xpath0 \in IdemSentences
    /\ nsc0 \in CanonContexts
    /\ yspec \in CanonYspecs
    /\ failat = 0
    /\ retval = -1
    /\ xpath1 = <<>> /\ nsc1p = <<>> /\ cbreason = <<>>
    /\ xpt = <<>> /\ xpt1 = <<>>
    /\ xt1 = <<>> /\ xt2 = <<>> /\ vec0 = <<>> /\ vec = <<>> /\ len = 0
    /\ alloced = {} /\ freed = <<>>
    /\ dbg = 0 /\ xpathp = <<>> /\ xnode = 0 /\ xmlflags = <<>> /\ flags = {}
    /\ delivered = <<>> /\ fout = <<>>
    /\ AppIdle

\* ret = xpath2canonical(xpath1, nsc1, yspec, &xpath2, &nsc2, &reason) after
\* a first call that returned 1.
CallCanonicalAgain ==
    /\ pc = "done" /\ retval = 1
    /\ LET r == xpath2canonical(xpath1, nsc1p[1], yspec,
                                [xpath1 |-> <<>>, nsc1p |-> <<>>, cbreason |-> <<>>], 0)
       IN  /\ retval2' = r.retval
           /\ xpath2' = r.xpath1
           /\ nsc2p' = r.nsc1p
    /\ pc' = "again"
    /\ UNCHANGED <<failat, retval, eqvars, textvars, canonvars, heapvars, apivars,
                   restvars, privvars, sigvars, clivars>>

NextIdem ==
    \/ CallCanonical
    \/ CallCanonicalAgain

SpecIdem == InitIdem /\ [][NextIdem]_vars

\* C30: canonicalization is idempotent: called on the xpath and the
\* namespace context a successful call handed out, xpath2canonical returns 1
\* and hands out the same xpath and the same namespace context.
C30_Idempotent ==
    (pc = "again") =>
        /\ retval2 = 1
        /\ xpath2 = xpath1
        /\ nsc2p = nsc1p

====
